------------------------ MODULE WatchPipelineProofs -------------------------
(***************************************************************************)
(* Theorems about WatchPipeline, for any repository, any commits and files *)
(* and any number of pushes and restarts.                                  *)
(***************************************************************************)
EXTENDS WatchPipeline, TLAPS

-----------------------------------------------------------------------------
\* Types

\* What the updates of a run under way do to its fields.
LEMMA RunUpdated ==
  ASSUME NEW r \in Run, NEW S \in SUBSET Files, NEW f \in Files,
         NEW t \in Contents \cup {Absent}
  PROVE  /\ [r EXCEPT !.gone = S] = [stage |-> r.stage, to |-> r.to, gone |-> S,
                                      todo |-> r.todo, text |-> r.text]
         /\ [r EXCEPT !.stage = "files", !.todo = S] =
              [stage |-> "files", to |-> r.to, gone |-> r.gone, todo |-> S,
               text |-> r.text]
         /\ [r EXCEPT !.text[f] = t] =
              [stage |-> r.stage, to |-> r.to, gone |-> r.gone, todo |-> r.todo,
               text |-> [r.text EXCEPT ![f] = t]]
         /\ [r EXCEPT !.todo = S, !.text[f] = t] =
              [stage |-> r.stage, to |-> r.to, gone |-> r.gone, todo |-> S,
               text |-> [r.text EXCEPT ![f] = t]]
<1> DEFINE u == [r.text EXCEPT ![f] = t]
<1>1. r = [stage |-> r.stage, to |-> r.to, gone |-> r.gone, todo |-> r.todo,
           text |-> r.text]
  BY DEF Run
<1>2. [r EXCEPT !.gone = S] = [stage |-> r.stage, to |-> r.to, gone |-> S,
                                todo |-> r.todo, text |-> r.text]
  BY <1>1
<1>3. [r EXCEPT !.stage = "files"] =
        [stage |-> "files", to |-> r.to, gone |-> r.gone, todo |-> r.todo, text |-> r.text]
  BY <1>1
<1>4. [r EXCEPT !.text = u] =
        [stage |-> r.stage, to |-> r.to, gone |-> r.gone, todo |-> r.todo, text |-> u]
  BY <1>1
<1>5. [r EXCEPT !.todo = S] =
        [stage |-> r.stage, to |-> r.to, gone |-> r.gone, todo |-> S, text |-> r.text]
  BY <1>1
<1> DEFINE a == [r EXCEPT !.stage = "files"]
           b == [r EXCEPT !.todo = S]
<1>6. /\ [r EXCEPT !.stage = "files", !.todo = S] = [a EXCEPT !.todo = S]
      /\ [r EXCEPT !.text[f] = t] = [r EXCEPT !.text = u]
      /\ [r EXCEPT !.todo = S, !.text[f] = t] = [b EXCEPT !.text = u]
  BY <1>5
<1>7. /\ a = [stage |-> "files", to |-> r.to, gone |-> r.gone, todo |-> r.todo,
              text |-> r.text]
      /\ b = [stage |-> r.stage, to |-> r.to, gone |-> r.gone, todo |-> S,
              text |-> r.text]
  BY <1>3, <1>5
<1> HIDE DEF a, b, u
<1>8. /\ [a EXCEPT !.todo = S] =
           [stage |-> "files", to |-> r.to, gone |-> r.gone, todo |-> S, text |-> r.text]
      /\ [b EXCEPT !.text = u] =
           [stage |-> r.stage, to |-> r.to, gone |-> r.gone, todo |-> S, text |-> u]
  BY <1>7
<1> QED BY <1>2, <1>4, <1>6, <1>8 DEF u

LEMMA Fields ==
  ASSUME TypeOK
  PROVE  /\ run.gone \subseteq Files /\ run.todo \subseteq Files
         /\ run.text \in [Files -> Contents \cup {Absent}]
         /\ run.to \in Commits \cup {None}
         /\ run.stage \in {"idle", "delete", "files", "save", "rename"}
         /\ run = [stage |-> run.stage, to |-> run.to, gone |-> run.gone,
                   todo |-> run.todo, text |-> run.text]
BY DEF TypeOK, Run

LEMMA SiteFields ==
  ASSUME TypeOK
  PROVE  /\ Tree \in [Commits -> [Files -> Contents \cup {Absent}]]
         /\ Ancestors \in [Commits -> SUBSET Commits]
         /\ \A c \in Commits : /\ c \in Ancestors[c]
                               /\ \A d \in Ancestors[c] : Ancestors[d] \subseteq Ancestors[c]
         /\ Absent \notin Contents /\ None \notin Commits
<1>1. site \in Sites /\ site \in Site
  BY RepositoryAssumption DEF TypeOK, RepositoryAssumption
<1>2. /\ site.tree \in [Commits -> [Files -> Contents \cup {Absent}]]
      /\ site.ancestors \in [Commits -> SUBSET Commits]
  BY <1>1 DEF Site
<1> QED BY <1>1, <1>2, RepositoryAssumption DEF RepositoryAssumption, Tree, Ancestors

LEMMA SameSite ==
  ASSUME site' = site
  PROVE  /\ Tree' = Tree /\ Ancestors' = Ancestors /\ Local' = Local
         /\ Faults' = Faults
BY DEF Tree, Ancestors, Local, Faults

LEMMA IdleTyped ==
  /\ Idle \in Run
  /\ \A s \in {"idle", "save", "rename"} :
       /\ [Idle EXCEPT !.stage = s] =
            [stage |-> s, to |-> None, gone |-> {}, todo |-> {}, text |-> Idle.text]
       /\ [Idle EXCEPT !.stage = s] \in Run
  /\ Idle.text \in [Files -> Contents \cup {Absent}]
  /\ \A f \in Files : Idle.text[f] = Absent
  /\ Idle = [Idle EXCEPT !.stage = "idle"]
<1> DEFINE text == [f \in Files |-> Absent]
<1>1. Idle = [stage |-> "idle", to |-> None, gone |-> {}, todo |-> {}, text |-> text]
      /\ text \in [Files -> Contents \cup {Absent}] /\ \A f \in Files : text[f] = Absent
  BY DEF Idle
<1> HIDE DEF text
<1>2. \A s \in {"idle", "save", "rename"} :
        [Idle EXCEPT !.stage = s] =
          [stage |-> s, to |-> None, gone |-> {}, todo |-> {}, text |-> text]
  BY <1>1
<1>3. Idle.text = text /\ Idle \in Run
  BY <1>1 DEF Run
<1>4. \A s \in {"idle", "save", "rename"} : [Idle EXCEPT !.stage = s] \in Run
  BY <1>1, <1>2 DEF Run
<1>5. Idle = [Idle EXCEPT !.stage = "idle"]
  BY <1>1, <1>2
<1> QED BY <1>1, <1>2, <1>3, <1>4, <1>5

\* The run after a step of it that is not its last.
RunTyped(r) ==
  /\ r \in Run
  /\ \A f \in Files : r.text[f] # Absent => f \in r.todo
  /\ r.stage \in {"idle", "save", "rename"} => r = [Idle EXCEPT !.stage = r.stage]

LEMMA IdleRun ==
  \A s \in {"idle", "save", "rename"} : RunTyped([Idle EXCEPT !.stage = s])
<1> TAKE s \in {"idle", "save", "rename"}
<1>1. [Idle EXCEPT !.stage = s].stage = s /\ [Idle EXCEPT !.stage = s].text = Idle.text
  BY IdleTyped
<1> QED BY <1>1, IdleTyped DEF RunTyped

\* A run under way goes on.
LEMMA RunGoes ==
  ASSUME TypeOK, run.stage \in {"delete", "files"}
  PROVE  /\ \A S \in SUBSET Files : RunTyped([run EXCEPT !.gone = S])
         /\ \A S \in SUBSET Files :
              run.todo \subseteq S => RunTyped([run EXCEPT !.stage = "files", !.todo = S])
         /\ \A f \in run.todo, t \in Contents \cup {Absent} :
              RunTyped([run EXCEPT !.text[f] = t])
         /\ \A f \in Files :
              RunTyped([run EXCEPT !.todo = @ \ {f}, !.text[f] = Absent])
<1>0. run \in Run /\ \A f \in Files : run.text[f] # Absent => f \in run.todo
  BY DEF TypeOK
<1>1. ASSUME NEW S \in SUBSET Files
      PROVE  RunTyped([run EXCEPT !.gone = S])
  BY <1>0, Fields, RunUpdated DEF RunTyped, Run
<1>2. ASSUME NEW S \in SUBSET Files, run.todo \subseteq S
      PROVE  RunTyped([run EXCEPT !.stage = "files", !.todo = S])
  BY <1>0, <1>2, Fields, RunUpdated DEF RunTyped, Run
<1>3. ASSUME NEW f \in run.todo, NEW t \in Contents \cup {Absent}
      PROVE  RunTyped([run EXCEPT !.text[f] = t])
  BY <1>0, Fields, RunUpdated DEF RunTyped, Run
<1>4. ASSUME NEW f \in Files
      PROVE  RunTyped([run EXCEPT !.todo = @ \ {f}, !.text[f] = Absent])
  <2>1. run.todo \ {f} \in SUBSET Files
    BY Fields
  <2> QED BY ZenonT(80), <1>0, <2>1, Fields, RunUpdated DEF RunTyped, Run
<1> QED BY <1>1, <1>2, <1>3, <1>4

\* A run that Check begins.
LEMMA BegunRun ==
  ASSUME NEW c \in Commits, NEW S \in SUBSET Files, NEW T \in SUBSET Files
  PROVE  LET r == [Idle EXCEPT !.stage = "delete", !.to = c, !.gone = S, !.todo = T]
         IN  /\ r = [stage |-> "delete", to |-> c, gone |-> S, todo |-> T,
                     text |-> Idle.text]
             /\ RunTyped(r)
<1> DEFINE r == [Idle EXCEPT !.stage = "delete", !.to = c, !.gone = S, !.todo = T]
           text == Idle.text
<1>1. Idle = [stage |-> "idle", to |-> None, gone |-> {}, todo |-> {}, text |-> text]
  BY DEF Idle
<1>2. text \in [Files -> Contents \cup {Absent}] /\ \A f \in Files : text[f] = Absent
  BY IdleTyped
<1> HIDE DEF text
<1> DEFINE r1 == [Idle EXCEPT !.stage = "delete"]
           r2 == [r1 EXCEPT !.to = c]
           r3 == [r2 EXCEPT !.gone = S]
<1>a. r = [r3 EXCEPT !.todo = T]
  BY <1>1
<1>b. r1 = [stage |-> "delete", to |-> None, gone |-> {}, todo |-> {}, text |-> text]
  BY <1>1
<1> HIDE DEF r1
<1>c. r2 = [stage |-> "delete", to |-> c, gone |-> {}, todo |-> {}, text |-> text]
  BY <1>b
<1> HIDE DEF r2
<1>d. r3 = [stage |-> "delete", to |-> c, gone |-> S, todo |-> {}, text |-> text]
  BY <1>c
<1> HIDE DEF r3
<1>3. r = [stage |-> "delete", to |-> c, gone |-> S, todo |-> T, text |-> text]
  BY <1>a, <1>d
<1> HIDE DEF r
<1>4. r \in Run
  BY <1>2, <1>3 DEF Run
<1>5. RunTyped(r)
  BY <1>2, <1>3, <1>4 DEF RunTyped
<1> QED BY <1>3, <1>5 DEF r, text

\* The run after each of the steps that change it.
LEMMA GoneRun ==
  ASSUME TypeOK, NEW f \in Files, run' = [run EXCEPT !.gone = @ \ {f}]
  PROVE  run' = [stage |-> run.stage, to |-> run.to, gone |-> run.gone \ {f},
                 todo |-> run.todo, text |-> run.text]
<1>1. run.gone \ {f} \in SUBSET Files /\ run \in Run
  BY Fields DEF TypeOK
<1> QED BY <1>1, RunUpdated

LEMMA ReadRun ==
  ASSUME TypeOK, NEW f \in Files, NEW t \in Contents \cup {Absent},
         run' = [run EXCEPT !.text[f] = t]
  PROVE  run' = [stage |-> run.stage, to |-> run.to, gone |-> run.gone,
                 todo |-> run.todo, text |-> [run.text EXCEPT ![f] = t]]
<1> DEFINE u == [run.text EXCEPT ![f] = t]
<1>1. run' = [run EXCEPT !.text = u]
  OBVIOUS
<1>2. run = [stage |-> run.stage, to |-> run.to, gone |-> run.gone,
             todo |-> run.todo, text |-> run.text]
  BY Fields
<1> HIDE DEF u
<1>3. run' = [stage |-> run.stage, to |-> run.to, gone |-> run.gone,
              todo |-> run.todo, text |-> u]
  BY <1>1, <1>2
<1> QED BY <1>3 DEF u

LEMMA DoneRun ==
  ASSUME TypeOK, NEW f \in Files,
         run' = [run EXCEPT !.todo = @ \ {f}, !.text[f] = Absent]
  PROVE  run' = [stage |-> run.stage, to |-> run.to, gone |-> run.gone,
                 todo |-> run.todo \ {f}, text |-> [run.text EXCEPT ![f] = Absent]]
<1> DEFINE u == [run.text EXCEPT ![f] = Absent]
           S == run.todo \ {f}
           r == [run EXCEPT !.todo = S]
<1>1. run = [stage |-> run.stage, to |-> run.to, gone |-> run.gone,
             todo |-> run.todo, text |-> run.text]
  BY Fields
<1>2. run' = [r EXCEPT !.text = u]
  BY <1>1
<1> HIDE DEF u, S
<1>3. r = [stage |-> run.stage, to |-> run.to, gone |-> run.gone,
           todo |-> S, text |-> run.text]
  BY <1>1
<1> HIDE DEF r
<1>4. run' = [stage |-> run.stage, to |-> run.to, gone |-> run.gone,
              todo |-> S, text |-> u]
  BY <1>2, <1>3
<1> QED BY <1>4 DEF u, S

LEMMA ExpandRun ==
  ASSUME TypeOK, NEW deps,
         run' = [run EXCEPT !.stage = "files", !.todo = @ \cup deps]
  PROVE  run' = [stage |-> "files", to |-> run.to, gone |-> run.gone,
                 todo |-> run.todo \cup deps, text |-> run.text]
<1> DEFINE S == run.todo \cup deps
           r == [run EXCEPT !.stage = "files"]
<1>1. run = [stage |-> run.stage, to |-> run.to, gone |-> run.gone,
             todo |-> run.todo, text |-> run.text]
  BY Fields
<1>2. run' = [r EXCEPT !.todo = S]
  BY <1>1
<1> HIDE DEF S
<1>3. r = [stage |-> "files", to |-> run.to, gone |-> run.gone,
           todo |-> run.todo, text |-> run.text]
  BY <1>1
<1> HIDE DEF r
<1>4. run' = [stage |-> "files", to |-> run.to, gone |-> run.gone,
              todo |-> S, text |-> run.text]
  BY <1>2, <1>3
<1> QED BY <1>4 DEF S

LEMMA CheckRun ==
  ASSUME TypeOK, Check
  PROVE  LET from == IF last # None /\ IsAncestor(last, head) THEN last ELSE None
         IN  run' = [stage |-> "delete", to |-> head, gone |-> Deleted(from, head),
                     todo |-> Changed(from, head), text |-> Idle.text]
<1> DEFINE from == IF last # None /\ IsAncestor(last, head) THEN last ELSE None
<1>1. run' = [Idle EXCEPT !.stage = "delete", !.to = head,
                          !.gone = Deleted(from, head), !.todo = Changed(from, head)]
  BY DEF Check
<1>2. head \in Commits /\ Deleted(from, head) \in SUBSET Files
      /\ Changed(from, head) \in SUBSET Files
  BY DEF TypeOK, Deleted, Changed
<1> HIDE DEF from
<1>3. run' = [stage |-> "delete", to |-> head, gone |-> Deleted(from, head),
              todo |-> Changed(from, head), text |-> Idle.text]
  BY <1>1, <1>2, BegunRun
<1> QED BY <1>3 DEF from

\* The variables other than run keep their types.
RestTyped ==
  /\ site' \in Sites /\ head' \in Commits /\ pruned' \subseteq Commits
  /\ pushes' \in 0 .. MaxPushes /\ crashes' \in 0 .. MaxCrashes
  /\ rows' \in [Files -> SUBSET Contents]
  /\ sources' \in [Files -> {"unknown", "live", "deleted"}]
  /\ cache' \in [Files -> Entry]
  /\ {last', memory', saved'} \cup other' \subseteq Commits \cup {None}
  /\ failed' \subseteq Files

LEMMA TypedAgain ==
  ASSUME RestTyped, RunTyped(run')
  PROVE  TypeOK'
BY DEF RestTyped, RunTyped, TypeOK

LEMMA RestKept ==
  ASSUME TypeOK, UNCHANGED <<site, head, pruned, pushes, rows, sources, cache,
                             last, memory, other, saved, failed, crashes>>
  PROVE  RestTyped
BY DEF TypeOK, RestTyped

\* The index keeps its types when one entry of it changes.
LEMMA IndexTyped ==
  ASSUME TypeOK, NEW f \in Files
  PROVE  /\ \A b \in BOOLEAN : [cache EXCEPT ![f].deleted = b] \in [Files -> Entry]
         /\ \A c \in Contents \cup {Absent} :
              [cache EXCEPT ![f] = [hash |-> c, deleted |-> FALSE]] \in [Files -> Entry]
         /\ \A s \in {"unknown", "live", "deleted"} :
              [sources EXCEPT ![f] = s] \in [Files -> {"unknown", "live", "deleted"}]
         /\ \A S \in SUBSET Contents : [rows EXCEPT ![f] = S] \in [Files -> SUBSET Contents]
<1>1. /\ rows \in [Files -> SUBSET Contents]
      /\ sources \in [Files -> {"unknown", "live", "deleted"}]
      /\ cache \in [Files -> Entry] /\ cache[f] \in Entry
  BY DEF TypeOK
<1>2. \A b \in BOOLEAN : [cache[f] EXCEPT !.deleted = b] \in Entry
  BY <1>1 DEF Entry
<1>3. ASSUME NEW b \in BOOLEAN
      PROVE  [cache EXCEPT ![f].deleted = b] \in [Files -> Entry]
  BY <1>1, <1>2
<1>4. \A c \in Contents \cup {Absent} : [hash |-> c, deleted |-> FALSE] \in Entry
  BY DEF Entry
<1>5. \A c \in Contents \cup {Absent} :
        [cache EXCEPT ![f] = [hash |-> c, deleted |-> FALSE]] \in [Files -> Entry]
  BY <1>1, <1>4
<1> QED BY <1>1, <1>3, <1>5

LEMMA WatcherTyped ==
  ASSUME TypeOK, Watcher
  PROVE  TypeOK'
<1>1. CASE Check
  <2>1. PICK from \in Commits \cup {None} :
          run' = [Idle EXCEPT !.stage = "delete", !.to = head,
                              !.gone = Deleted(from, head), !.todo = Changed(from, head)]
    BY <1>1 DEF Check, TypeOK
  <2>2. Deleted(from, head) \subseteq Files /\ Changed(from, head) \subseteq Files
    BY DEF Deleted, Changed
  <2>3. RunTyped(run')
    BY <2>1, <2>2, BegunRun DEF TypeOK
  <2>4. RestTyped
    BY <1>1, RestKept DEF Check, repository, index, state, history
  <2> QED BY <2>3, <2>4, TypedAgain
<1>2. CASE ExpandDeps
  <2>1. PICK deps \in SUBSET Files :
          run' = [run EXCEPT !.stage = "files", !.todo = @ \cup deps]
    BY <1>2 DEF ExpandDeps, ReverseDeps
  <2>2. RunTyped(run')
    BY <1>2, <2>1, Fields, RunGoes DEF ExpandDeps
  <2>3. RestTyped
    BY <1>2, RestKept DEF ExpandDeps, repository, index, state, history
  <2> QED BY <2>2, <2>3, TypedAgain
<1>3. CASE Finish
  <2>1. RestTyped
    BY <1>3, Fields DEF Finish, TypeOK, RestTyped, repository, index, state, history
  <2> QED BY <1>3, <2>1, IdleRun, TypedAgain DEF Finish
<1>4. CASE SetSHA
  <2>1. RestTyped
    BY <1>4 DEF SetSHA, TypeOK, RestTyped, repository, index, state, history
  <2> QED BY <1>4, <2>1, IdleRun, TypedAgain DEF SetSHA
<1>5. CASE SaveState
  <2>1. RestTyped
    BY <1>5 DEF SaveState, TypeOK, RestTyped, repository, index, state, history
  <2> QED BY <1>5, <2>1, IdleRun, IdleTyped, TypedAgain DEF SaveState
<1>6. ASSUME NEW f \in Files, MarkDeleted(f)
      PROVE  TypeOK'
  <2>1. RunTyped(run')
    BY <1>6, Fields, RunGoes DEF MarkDeleted
  <2>2. cache' \in [Files -> Entry]
    BY <1>6, IndexTyped DEF MarkDeleted
  <2>3. sources' \in [Files -> {"unknown", "live", "deleted"}]
    BY <1>6 DEF MarkDeleted, TypeOK
  <2>4. RestTyped
    BY <1>6, <2>2, <2>3 DEF MarkDeleted, TypeOK, RestTyped, repository, state
  <2> QED BY <2>1, <2>4, TypedAgain
<1>7. ASSUME NEW f \in Files, ReadFile(f) \/ ReadAhead(f)
      PROVE  TypeOK'
  <2>1. RestTyped
    BY <1>7, RestKept DEF ReadFile, ReadAhead, repository, index, state, history
  <2>2. Tree[head][f] \in Contents \cup {Absent}
    BY SiteFields DEF TypeOK
  <2>3. RunTyped(run')
    BY <1>7, <2>2, RunGoes DEF ReadFile, ReadAhead
  <2> QED BY <2>1, <2>3, TypedAgain
<1>8. ASSUME NEW f \in Files, CacheHit(f)
      PROVE  TypeOK'
  <2>1. RestTyped
    BY <1>8, RestKept DEF CacheHit, repository, index, state, history
  <2>2. RunTyped(run')
    BY <1>8, RunGoes DEF CacheHit
  <2> QED BY <2>1, <2>2, TypedAgain
<1>9. ASSUME NEW f \in Files, StoreFile(f)
      PROVE  TypeOK'
  <2>1. RunTyped(run')
    BY <1>9, RunGoes DEF StoreFile
  <2>2. Source(f) \in Contents /\ run.text[f] \in Contents \cup {Absent}
    BY <1>9, SiteFields, Fields DEF StoreFile, Source, TypeOK
  <2>3. cache' \in [Files -> Entry]
    BY <1>9, <2>2, IndexTyped DEF StoreFile, Put
  <2>4. sources' \in [Files -> {"unknown", "live", "deleted"}]
    BY <1>9, IndexTyped DEF StoreFile
  <2>5. rows' \in [Files -> SUBSET Contents]
    BY <1>9, <2>2 DEF StoreFile, Stored, TypeOK
  <2>6. RestTyped
    BY <1>9, <2>3, <2>4, <2>5 DEF StoreFile, TypeOK, RestTyped, repository, state
  <2> QED BY <2>1, <2>6, TypedAgain
<1>10. ASSUME NEW f \in Files, FileFails(f)
       PROVE  TypeOK'
  <2>1. RunTyped(run')
    BY <1>10, RunGoes DEF FileFails
  <2>2. RestTyped
    BY <1>10 DEF FileFails, TypeOK, RestTyped, repository, index, state
  <2> QED BY <2>1, <2>2, TypedAgain
<1> QED BY <1>1, <1>2, <1>3, <1>4, <1>5, <1>6, <1>7, <1>8, <1>9, <1>10 DEF Watcher

LEMMA TypeStep ==
  ASSUME TypeOK, [Next]_vars
  PROVE  TypeOK'
<1>1. CASE UNCHANGED vars
  BY <1>1 DEF vars, TypeOK
<1>2. CASE Watcher
  BY <1>2, WatcherTyped
<1>3. ASSUME NEW f \in Files, MarkDeletedFails(f)
      PROVE  TypeOK'
  <2>1. RunTyped(run')
    BY <1>3, Fields, RunGoes DEF MarkDeletedFails
  <2>2. cache' \in [Files -> Entry]
    <3>1. CASE UNCHANGED cache
      BY <3>1 DEF TypeOK
    <3>2. CASE cache' = [cache EXCEPT ![f].deleted = cache[f].hash # Absent]
      BY <3>2, IndexTyped
    <3> QED BY <1>3, <3>1, <3>2 DEF MarkDeletedFails
  <2>3. RestTyped
    BY <1>3, <2>2 DEF MarkDeletedFails, TypeOK, RestTyped, repository, state
  <2> QED BY <2>1, <2>3, TypedAgain
<1>4. ASSUME NEW f \in Files, StoreFails(f)
      PROVE  TypeOK'
  <2>1. RunTyped(run')
    BY <1>4, RunGoes DEF StoreFails
  <2>2. cache' \in [Files -> Entry]
    BY <1>4, Fields, IndexTyped DEF StoreFails, Put, TypeOK
  <2>3. RestTyped
    BY <1>4, <2>2 DEF StoreFails, TypeOK, RestTyped, repository, state
  <2> QED BY <2>1, <2>3, TypedAgain
<1>5. CASE SaveStateFails
  <2>1. RestTyped
    BY <1>5, RestKept DEF SaveStateFails, repository, index, state, history
  <2> QED BY <1>5, <2>1, IdleRun, IdleTyped, TypedAgain DEF SaveStateFails
<1>6. RunTyped(run)
  BY DEF TypeOK, RunTyped
<1>7. ASSUME NEW c \in Commits, Push(c)
      PROVE  TypeOK'
  <2>1. RestTyped
    BY <1>7, RepositoryAssumption
       DEF Push, TypeOK, RestTyped, index, state, history, RepositoryAssumption
  <2> QED BY <1>6, <1>7, <2>1, TypedAgain DEF Push
<1>8. CASE Prune
  <2>1. RestTyped
    BY <1>8 DEF Prune, TypeOK, RestTyped, index, state, history
  <2> QED BY <1>6, <1>8, <2>1, TypedAgain DEF Prune
<1>9. CASE OtherMarshals \/ OtherRenames
  <2>1. RestTyped
    BY <1>9 DEF OtherMarshals, OtherRenames, TypeOK, RestTyped, repository, index, history
  <2> QED BY <1>6, <1>9, <2>1, TypedAgain DEF OtherMarshals, OtherRenames
<1>10. CASE Crash
  <2>1. cache' \in [Files -> Entry]
    BY <1>10 DEF Crash, Entry, NoEntry
  <2>2. RestTyped
    BY <1>10, <2>1, RepositoryAssumption
       DEF Crash, LoadState, TypeOK, RestTyped, repository, RepositoryAssumption
  <2> QED BY <1>10, <2>2, IdleRun, IdleTyped, TypedAgain DEF Crash
<1> QED BY <1>1, <1>2, <1>3, <1>4, <1>5, <1>7, <1>8, <1>9, <1>10 DEF Next, Failure

LEMMA InitTyped == Init => TypeOK
<1> SUFFICES ASSUME Init
             PROVE  TypeOK
  OBVIOUS
<1>1. RunTyped(run)
  BY IdleRun, IdleTyped DEF Init
<1>2. /\ rows \in [Files -> SUBSET Contents]
      /\ sources \in [Files -> {"unknown", "live", "deleted"}]
      /\ cache \in [Files -> Entry]
  BY DEF Init, Entry, NoEntry
<1>3. head \in Commits /\ pushes \in 0 .. MaxPushes /\ crashes \in 0 .. MaxCrashes
  BY RepositoryAssumption DEF Init, RepositoryAssumption
<1> QED BY <1>1, <1>2, <1>3 DEF Init, TypeOK, RunTyped

\* The state keeps its types, however the repository moves and wherever the process
\* is stopped.
THEOREM TypeCorrect == Spec => []TypeOK
BY InitTyped, TypeStep, PTL DEF Spec

-----------------------------------------------------------------------------
\* The cache of a remote source

\* The claims of a file are replaced by those of what was read, when extractors keep
\* the contract of extractor/extractor.go: name and path are those of the delete.
LEMMA StoredRow ==
  ASSUME TypeOK, Keyed = {"name", "path"}, NEW f \in Files, Stored(f)
  PROVE  \A g \in Files : rows'[g] = IF g = f THEN {Source(f)} ELSE rows[g]
BY DEF Stored, TypeOK

LEMMA CacheStep ==
  ASSUME TypeOK, Keyed = {"name", "path"}, CacheHonest, [Next]_vars
  PROVE  CacheHonest'
<1>1. site' = site
  BY DEF Next, vars, Push, Prune, Watcher, Failure, Check, ExpandDeps, Finish, SetSHA,
         SaveState, MarkDeleted, ReadFile, ReadAhead, CacheHit, StoreFile, FileFails,
         SaveStateFails, MarkDeletedFails, StoreFails, OtherMarshals, OtherRenames,
         Crash, repository
<1>2. Local' = Local
  BY <1>1, SameSite
<1>3. CASE cache' = cache /\ rows' = rows /\ failed \subseteq failed'
  BY <1>2, <1>3 DEF CacheHonest
<1>4. ASSUME NEW f \in Files,
             \A g \in Files : g # f => cache'[g] = cache[g] /\ rows'[g] = rows[g]
                                       /\ (g \in failed => g \in failed'),
             ~Local => \/ f \in failed' \/ cache'[f].hash = Absent \/ cache'[f].deleted
                       \/ rows'[f] = {cache'[f].hash}
      PROVE  CacheHonest'
  BY <1>2, <1>4 DEF CacheHonest
<1>5. ASSUME NEW f \in Files, MarkDeleted(f)
      PROVE  CacheHonest'
  <2>1. /\ rows' = rows /\ failed' = failed \ {f}
        /\ \A g \in Files : g # f => cache'[g] = cache[g]
        /\ cache'[f] = [cache[f] EXCEPT !.deleted = cache[f].hash # Absent]
    BY <1>5 DEF MarkDeleted, TypeOK
  <2>2. cache[f] \in Entry
    BY DEF TypeOK
  <2>3. cache'[f].hash = cache[f].hash /\ cache'[f].deleted = (cache[f].hash # Absent)
    BY <2>1, <2>2 DEF Entry
  <2> QED BY <1>4, <2>1, <2>3
<1>6. ASSUME NEW f \in Files, MarkDeletedFails(f)
      PROVE  CacheHonest'
  <2>1. rows' = rows /\ failed' = failed \cup {f}
        /\ \A g \in Files : g # f => cache'[g] = cache[g]
    BY <1>6 DEF MarkDeletedFails, TypeOK
  <2> QED BY <1>4, <2>1
<1>7. ASSUME NEW f \in Files, StoreFile(f)
      PROVE  CacheHonest'
  <2>1. \A g \in Files : rows'[g] = IF g = f THEN {Source(f)} ELSE rows[g]
    BY <1>7, StoredRow DEF StoreFile
  <2>2. \A g \in Files : cache'[g] = IF g = f THEN [hash |-> run.text[f], deleted |-> FALSE]
                                   ELSE cache[g]
    BY <1>7 DEF StoreFile, Put, TypeOK
  <2>3. ~Local => rows'[f] = {cache'[f].hash}
    BY <2>1, <2>2 DEF Source
  <2>4. failed' = failed \ {f}
    BY <1>7 DEF StoreFile
  <2> QED BY <1>4, <2>1, <2>2, <2>3, <2>4
<1>8. ASSUME NEW f \in Files, StoreFails(f)
      PROVE  CacheHonest'
  <2>1. rows' = rows /\ failed' = failed \cup {f}
        /\ \A g \in Files : g # f => cache'[g] = cache[g]
    BY <1>8 DEF StoreFails, Put, TypeOK
  <2> QED BY <1>4, <2>1
<1>9. CASE Crash
  <2>1. \A f \in Files : cache'[f].hash = Absent
    BY <1>9 DEF Crash, NoEntry
  <2> QED BY <2>1 DEF CacheHonest
<1> QED BY <1>3, <1>5, <1>6, <1>7, <1>8, <1>9
       DEF Next, vars, Push, Prune, Watcher, Failure, Check, ExpandDeps, Finish, SetSHA,
           SaveState, ReadFile, ReadAhead, CacheHit, FileFails, SaveStateFails,
           OtherMarshals, OtherRenames, index, history

\* A cache hit skips nothing that is not stored: at a remote source the entry of a file
\* has the content of its claims, whatever fails and wherever HEAD moves.
THEOREM CacheTrue ==
  ASSUME Keyed = {"name", "path"}
  PROVE  Spec => []CacheHonest
<1>1. Init => CacheHonest
  BY DEF Init, CacheHonest, NoEntry
<1>2. TypeOK /\ CacheHonest /\ [Next]_vars => CacheHonest'
  BY CacheStep
<1> QED BY <1>1, <1>2, TypeCorrect, PTL DEF Spec

-----------------------------------------------------------------------------
\* A history that grows

\* Commit c is d or before it.
LEMMA Before ==
  ASSUME TypeOK, NEW c \in Commits, NEW d \in Commits, NEW e \in Commits,
         c \in Ancestors[d], d \in Ancestors[e]
  PROVE  c \in Ancestors[e]
BY SiteFields

\* A content between two equal ones is the same.
LEMMA Between ==
  ASSUME TypeOK, HistoryGrows, NEW f \in Files,
         NEW c \in Commits, NEW d \in Commits, NEW e \in Commits,
         c \in Ancestors[d], d \in Ancestors[e], Tree[c][f] = Tree[e][f]
  PROVE  Tree[d][f] = Tree[e][f]
BY DEF HistoryGrows

LEMMA SiteKept ==
  ASSUME [Next]_vars
  PROVE  site' = site
BY DEF Next, vars, Push, Prune, Watcher, Failure, Check, ExpandDeps, Finish, SetSHA,
       SaveState, MarkDeleted, ReadFile, ReadAhead, CacheHit, StoreFile, FileFails,
       SaveStateFails, MarkDeletedFails, StoreFails, OtherMarshals, OtherRenames,
       Crash, repository

LEMMA GrowsStill ==
  ASSUME site' = site
  PROVE  HistoryGrows' <=> HistoryGrows
BY SameSite DEF HistoryGrows

\* HEAD stays where it is, or moves on to a descendant.
LEMMA HeadMoves ==
  ASSUME TypeOK, HistoryGrows, [Next]_vars
  PROVE  head' \in Commits /\ head \in Ancestors[head']
<1>1. CASE head' = head
  BY <1>1, SiteFields DEF TypeOK
<1>2. ASSUME NEW c \in Commits, Push(c)
      PROVE  head' \in Commits /\ head \in Ancestors[head']
  BY <1>2 DEF Push, HistoryGrows, Fault
<1> QED BY <1>1, <1>2
       DEF Next, vars, Prune, Watcher, Failure, Check, ExpandDeps, Finish, SetSHA,
           SaveState, MarkDeleted, ReadFile, ReadAhead, CacheHit, StoreFile, FileFails,
           SaveStateFails, MarkDeletedFails, StoreFails, OtherMarshals, OtherRenames,
           Crash, repository

-----------------------------------------------------------------------------
\* What the watcher remembers

Active == run.stage \in {"delete", "files"}

\* Inductive: what is remembered is HEAD or before it, the state file is not ahead of
\* the watcher, nor is anything that may still be written to it; and a run goes
\* beyond them all.
Ordered ==
  /\ \A c \in {last, saved} \ {None} : c \in Ancestors[head]
  /\ last # None /\ saved # None => saved \in Ancestors[last]
  /\ \A c \in ({memory} \cup other) \ {None} : last # None /\ c \in Ancestors[last]
  /\ Active => /\ run.to # None /\ run.to \in Ancestors[head]
               /\ \A c \in {last, saved} \ {None} : c \in Ancestors[run.to]

LEMMA OrderedStep ==
  ASSUME TypeOK, HistoryGrows, Ordered, [Next]_vars
  PROVE  Ordered'
<1>0. Ancestors' = Ancestors
  BY SiteKept, SameSite
<1>1. {last, memory, saved, run.to} \cup other \subseteq Commits \cup {None}
      /\ head \in Commits /\ None \notin Commits
  BY SiteFields, Fields DEF TypeOK
<1>2. head' \in Commits /\ head \in Ancestors[head']
  BY HeadMoves
<1>3. CASE UNCHANGED <<last, state>> /\ (Active' => Active /\ run'.to = run.to)
  BY <1>0, <1>1, <1>2, <1>3, Before DEF Ordered, state
<1>4. CASE Check
  <2>1. run'.to = head
    BY <1>4, CheckRun
  <2>2. head' = head /\ UNCHANGED <<last, state>>
    BY <1>4 DEF Check, repository
  <2> QED BY <1>0, <1>1, <1>2, <2>1, <2>2 DEF Ordered, state
<1>5. CASE Finish
  <2>1. Active /\ last' = run.to /\ UNCHANGED <<head, state>> /\ ~Active'
    BY <1>5, IdleTyped DEF Finish, Active, repository
  <2>2. \A c \in ({memory, saved} \cup other) \ {None} : c \in Ancestors[run.to]
    BY <1>1, <2>1, Before DEF Ordered
  <2> QED BY <1>0, <1>1, <2>1, <2>2 DEF Ordered, state
<1>6. CASE SetSHA
  <2>1. memory' = last /\ UNCHANGED <<head, last, other, saved>> /\ ~Active'
    BY <1>6, IdleTyped DEF SetSHA, Active, repository
  <2> QED BY <1>0, <1>1, <2>1, SiteFields DEF Ordered
<1>7. CASE SaveState
  <2>1. saved' = last /\ UNCHANGED <<head, last, memory, other>> /\ ~Active'
    BY <1>7 DEF SaveState, Active, Idle, repository
  <2> QED BY <1>0, <1>1, <2>1, SiteFields DEF Ordered
<1>8. CASE OtherMarshals
  <2>1. other' = {memory} /\ UNCHANGED <<head, last, memory, saved, run>>
    BY <1>8 DEF OtherMarshals, repository
  <2> QED BY <1>0, <1>1, <2>1 DEF Ordered, Active
<1>9. CASE OtherRenames
  <2>1. saved' \in other /\ other' = {} /\ UNCHANGED <<head, last, memory, run>>
    BY <1>9 DEF OtherRenames, repository
  <2>2. saved' # None => /\ last # None /\ saved' \in Ancestors[last]
                         /\ saved' \in Ancestors[head]
                         /\ Active => saved' \in Ancestors[run.to]
    BY <1>1, <2>1, Before DEF Ordered
  <2> QED BY <1>0, <1>1, <2>1, <2>2 DEF Ordered, Active
<1>10. CASE Crash
  <2>1. /\ last' = saved \/ last' = None
        /\ memory' = last' /\ other' = {} /\ UNCHANGED <<head, saved>>
        /\ ~Active'
    BY <1>10 DEF Crash, LoadState, Active, Idle, repository
  <2> QED BY <1>0, <1>1, <2>1, SiteFields DEF Ordered
<1>11. ASSUME NEW f \in Files, MarkDeleted(f) \/ MarkDeletedFails(f)
       PROVE  Ordered'
  <2>1. run'.stage = run.stage /\ run'.to = run.to
    BY <1>11, GoneRun DEF MarkDeleted, MarkDeletedFails
  <2> QED BY <1>3, <1>11, <2>1 DEF MarkDeleted, MarkDeletedFails, Active
<1>12. ASSUME NEW f \in Files,
              ReadFile(f) \/ ReadAhead(f) \/ CacheHit(f) \/ StoreFile(f) \/ FileFails(f)
                \/ StoreFails(f)
       PROVE  Ordered'
  <2>1. run'.stage = run.stage /\ run'.to = run.to
    BY <1>12, Fields DEF ReadFile, ReadAhead, CacheHit, StoreFile, FileFails, StoreFails
  <2> QED BY <1>3, <1>12, <2>1
         DEF ReadFile, ReadAhead, CacheHit, StoreFile, FileFails, StoreFails, Active
<1>13. CASE ExpandDeps
  <2>1. Active /\ run'.to = run.to
    BY <1>13, Fields DEF ExpandDeps, Active
  <2> QED BY <1>3, <1>13, <2>1 DEF ExpandDeps
<1>14. CASE SaveStateFails
  BY <1>3, <1>14 DEF SaveStateFails, Active, Idle
<1>15. CASE UNCHANGED vars \/ Prune \/ \E c \in Commits : Push(c)
  BY <1>3, <1>15 DEF vars, state, Prune, Push, Active
<1> QED BY <1>4, <1>5, <1>6, <1>7, <1>8, <1>9, <1>10, <1>11, <1>12, <1>13, <1>14, <1>15
       DEF Next, Watcher, Failure

LEMMA InitOrdered == Init => Ordered
BY DEF Init, Ordered, Active, Idle

\* With a history that grows, the state file is never ahead of the watcher, although
\* other watchers publish what this one has in memory and rename older states over
\* newer ones.
THEOREM ResumeTrue == Spec => []ResumeIndexed
<1> DEFINE Inv == HistoryGrows => Ordered
<1>1. Init => Inv
  BY InitOrdered
<1>2. TypeOK /\ Inv /\ [Next]_vars => Inv'
  BY OrderedStep, SiteKept, GrowsStill
<1>3. Inv => ResumeIndexed
  BY DEF Ordered, ResumeIndexed
<1> QED BY <1>1, <1>2, <1>3, TypeCorrect, PTL DEF Spec

-----------------------------------------------------------------------------
\* What the index says of a file

\* The index has file f as commit h had it.
View(f, h) ==
  IF Tree[h][f] # Absent
  THEN sources[f] = "live" /\ rows[f] = {Tree[h][f]}
  ELSE crashes = 0 => sources[f] # "live"

\* It has f as some commit between c and HEAD had it: files are read where HEAD is.
Indexed(f, c) ==
  \E h \in Commits : c \in Ancestors[h] /\ h \in Ancestors[head] /\ View(f, h)

\* What was read for the run under way is of a commit between its own and HEAD, and a
\* hit on it skips what is stored.
Read(f) ==
  run.text[f] # Absent =>
    /\ run.stage = "files"
    /\ \E h \in Commits : /\ run.to \in Ancestors[h] /\ h \in Ancestors[head]
                          /\ run.text[f] = Tree[h][f]
    /\ Hit(f) /\ f \notin failed => sources[f] = "live" /\ rows[f] = {run.text[f]}

\* A clone hashes a file and then extracts it: its cache entry is of a commit that
\* is that of its claims or before it.
Entered(f) ==
  f \notin failed /\ cache[f].hash # Absent /\ ~cache[f].deleted =>
    /\ sources[f] = "live"
    /\ \E i \in Commits : \E h \in Ancestors[i] :
         /\ i \in Ancestors[head]
         /\ cache[f].hash = Tree[h][f] /\ rows[f] = {Tree[i][f]}

\* Every file is indexed as of what a restart or the next check starts from, and the
\* run under way has yet to process it or has it indexed as of its own commit.
Progress ==
  /\ \A f \in Files \ failed, c \in Commits : c \in {last, saved} => Indexed(f, c)
  /\ Active => \A f \in Files \ failed, c \in Commits :
                 c = run.to => f \in run.todo \cup run.gone \/ Indexed(f, c)
  /\ Active => \A f \in run.gone : Tree[run.to][f] = Absent
  /\ run.stage = "files" => run.gone = {}
  /\ crashes = 0 /\ last = None /\ ~Active => \A f \in Files : sources[f] = "unknown"

Reading == \A f \in Files : Read(f)
Cached == \A f \in Files : Entered(f)

LEMMA ViewSame ==
  ASSUME TypeOK, site' = site, NEW f \in Files, NEW h \in Commits, View(f, h),
         sources'[f] = sources[f], rows'[f] = rows[f],
         crashes' = crashes \/ crashes' # 0
  PROVE  View(f, h)'
BY SameSite DEF View

LEMMA IndexedSame ==
  ASSUME TypeOK, HistoryGrows, [Next]_vars, NEW f \in Files, NEW c \in Commits,
         Indexed(f, c), sources'[f] = sources[f], rows'[f] = rows[f],
         crashes' = crashes \/ crashes' # 0
  PROVE  Indexed(f, c)'
<1>1. PICK h \in Commits : c \in Ancestors[h] /\ h \in Ancestors[head] /\ View(f, h)
  BY DEF Indexed
<1>2. site' = site /\ Ancestors' = Ancestors
  BY SiteKept, SameSite
<1>3. View(f, h)'
  BY <1>1, <1>2, ViewSame
<1>4. h \in Ancestors[head']
  BY <1>1, HeadMoves, Before DEF TypeOK
<1> QED BY <1>1, <1>2, <1>3, <1>4 DEF Indexed

\* Indexed as of a commit, a file is indexed as of every commit before.
LEMMA IndexedBefore ==
  ASSUME TypeOK, NEW f \in Files, NEW c \in Commits, NEW d \in Commits,
         Indexed(f, d), c \in Ancestors[d]
  PROVE  Indexed(f, c)
BY Before DEF Indexed

LEMMA IndexedBeforeNext ==
  ASSUME TypeOK, site' = site, NEW f \in Files, NEW c \in Commits, NEW d \in Commits,
         Indexed(f, d)', c \in Ancestors[d]
  PROVE  Indexed(f, c)'
BY SameSite, Before DEF Indexed

\* A file that no diff lists is indexed as of HEAD.
LEMMA IndexedAtHead ==
  ASSUME TypeOK, HistoryGrows, NEW f \in Files, NEW c \in Commits, Indexed(f, c),
         Tree[c][f] = Tree[head][f]
  PROVE  Indexed(f, head)
<1>1. PICK h \in Commits : c \in Ancestors[h] /\ h \in Ancestors[head] /\ View(f, h)
  BY DEF Indexed
<1>2. Tree[h][f] = Tree[head][f]
  BY <1>1, Between DEF TypeOK
<1>3. View(f, head)
  BY <1>1, <1>2 DEF View
<1> QED BY <1>3, SiteFields DEF Indexed, TypeOK

\* A step that leaves the index alone.
LEMMA ProgressKept ==
  ASSUME TypeOK, HistoryGrows, Progress, [Next]_vars,
         UNCHANGED <<last, saved, rows, sources, crashes>>, failed \subseteq failed',
         Active' => /\ Active /\ run'.to = run.to
                    /\ run.todo \cup run.gone \subseteq run'.todo \cup run'.gone
                    /\ run'.gone \subseteq run.gone,
         run'.stage = "files" => run'.gone = {},
         ~Active' /\ last = None => ~Active
  PROVE  Progress'
<1>1. \A f \in Files, c \in Commits : Indexed(f, c) => Indexed(f, c)'
  BY IndexedSame
<1>2. Tree' = Tree
  BY SiteKept, SameSite
<1> QED BY <1>1, <1>2 DEF Progress

\* A step that processes one file.
LEMMA ProgressFile ==
  ASSUME TypeOK, HistoryGrows, Ordered, Progress, [Next]_vars, Active, NEW f \in Files,
         UNCHANGED <<last, saved, crashes>>,
         run'.stage = run.stage, run'.to = run.to,
         run'.gone \subseteq run.gone, run.gone \ {f} \subseteq run'.gone,
         run.todo \ {f} \subseteq run'.todo,
         \A g \in Files : g # f =>
           /\ sources'[g] = sources[g] /\ rows'[g] = rows[g]
           /\ g \in failed => g \in failed',
         f \notin failed' => \A c \in Commits : c = run.to => Indexed(f, c)'
  PROVE  Progress'
<1>1. ASSUME NEW g \in Files \ failed', NEW c \in Commits, c = run.to
      PROVE  g \in run'.todo \cup run'.gone \/ Indexed(g, c)'
  <2>1. CASE g = f
    BY <1>1, <2>1
  <2>2. CASE g # f
    BY <1>1, <2>2, IndexedSame DEF Progress
  <2> QED BY <2>1, <2>2
<1>2. ASSUME NEW g \in Files \ failed', NEW c \in Commits, c \in {last, saved}
      PROVE  Indexed(g, c)'
  <2>1. CASE g = f
    <3>1. run.to \in Commits /\ c \in Ancestors[run.to]
      BY <1>2, Fields, SiteFields DEF Ordered
    <3>2. Indexed(f, run.to)'
      BY <2>1, <3>1
    <3> QED BY <2>1, <3>1, <3>2, SiteKept, IndexedBeforeNext
  <2>2. CASE g # f
    BY <1>2, <2>2, IndexedSame DEF Progress
  <2> QED BY <2>1, <2>2
<1>3. Active' /\ Tree' = Tree
  BY SiteKept, SameSite DEF Active
<1>4. run'.stage = "files" => run'.gone = {}
  BY DEF Progress
<1> QED BY <1>1, <1>2, <1>3, <1>4 DEF Progress

-----------------------------------------------------------------------------
\* Progress is made

LEMMA CheckProgress ==
  ASSUME TypeOK, HistoryGrows, Ordered, Progress, Check
  PROVE  Progress'
<1> DEFINE from == IF last # None /\ IsAncestor(last, head) THEN last ELSE None
<1>1. run' = [stage |-> "delete", to |-> head, gone |-> Deleted(from, head),
              todo |-> Changed(from, head), text |-> Idle.text]
  BY CheckRun
<1>2. from = last
  BY Fields DEF IsAncestor, Ordered, TypeOK
<1> HIDE DEF from
<1>3. UNCHANGED <<site, head, pushes, rows, sources, cache, last, saved, failed, crashes>>
      /\ run.stage = "idle" /\ [Next]_vars
  BY DEF Check, repository, index, state, history, Next, Watcher
<1>4. head \in Commits /\ last \in Commits \cup {None}
      /\ head \in Ancestors[head]
  BY SiteFields DEF TypeOK
<1>5. ASSUME NEW f \in Files \ failed, f \notin Changed(last, head),
             f \notin Deleted(last, head)
      PROVE  Indexed(f, head)
  <2>1. CASE last = None
    <3>1. Tree[head][f] = Absent
      BY <1>5, <2>1 DEF Changed
    <3>2. crashes = 0 => sources[f] = "unknown"
      BY <1>3, <2>1 DEF Progress, Active
    <3> QED BY <1>4, <3>1, <3>2 DEF Indexed, View
  <2>2. CASE last # None
    <3>1. Tree[last][f] = Tree[head][f]
      BY <1>5, <2>2 DEF Changed, Deleted
    <3>2. Indexed(f, last)
      BY <1>4, <2>2 DEF Progress
    <3> QED BY <1>4, <2>2, <3>1, <3>2, IndexedAtHead
  <2> QED BY <2>1, <2>2
<1>6. \A f \in Files, c \in Commits : Indexed(f, c) => Indexed(f, c)'
  BY <1>3, IndexedSame
<1>7. ASSUME NEW f \in Files \ failed', NEW c \in Commits, c = head
      PROVE  f \in run'.todo \cup run'.gone \/ Indexed(f, c)'
  BY <1>1, <1>2, <1>3, <1>5, <1>6, <1>7
<1>8. \A f \in run'.gone : Tree'[head][f] = Absent
  BY <1>1, <1>3, SameSite DEF Deleted
<1>9. Active' /\ run'.to = head /\ run'.stage = "delete"
  BY <1>1 DEF Active
<1>10. \A f \in Files \ failed', c \in Commits : c \in {last', saved'} => Indexed(f, c)'
  BY <1>3, <1>6 DEF Progress
<1> QED BY <1>7, <1>8, <1>9, <1>10 DEF Progress

LEMMA DeleteProgress ==
  ASSUME TypeOK, HistoryGrows, Ordered, Progress, NEW f \in Files,
         MarkDeleted(f) \/ MarkDeletedFails(f)
  PROVE  Progress'
<1>1. /\ [Next]_vars /\ Active /\ f \in run.gone
      /\ UNCHANGED <<site, head, pruned, pushes, rows, last, saved, crashes>>
  BY DEF MarkDeleted, MarkDeletedFails, Next, Watcher, Failure, repository, state, Active
<1>2. run' = [stage |-> run.stage, to |-> run.to, gone |-> run.gone \ {f},
              todo |-> run.todo, text |-> run.text]
  BY GoneRun DEF MarkDeleted, MarkDeletedFails
<1>3. \A g \in Files : g # f => sources'[g] = sources[g] /\ (g \in failed => g \in failed')
  BY DEF MarkDeleted, MarkDeletedFails, TypeOK
<1>4. ASSUME f \notin failed', NEW c \in Commits, c = run.to
      PROVE  Indexed(f, c)'
  <2>1. MarkDeleted(f)
    BY <1>4 DEF MarkDeletedFails
  <2>2. sources'[f] # "live"
    BY <2>1 DEF MarkDeleted, TypeOK
  <2>3. Tree[c][f] = Absent /\ c \in Ancestors[c] /\ c \in Ancestors[head]
    BY <1>1, <1>4, SiteFields DEF Progress, Ordered
  <2>4. View(f, c)'
    BY <1>1, <2>2, <2>3, SameSite DEF View
  <2> QED BY <1>1, <2>3, <2>4, SameSite DEF Indexed
<1> QED BY <1>1, <1>2, <1>3, <1>4, ProgressFile

\* A file is processed: the claims are those of what was read.
LEMMA FileProgress ==
  ASSUME TypeOK, HistoryGrows, Ordered, Progress, Reading, Keyed = {"name", "path"},
         NEW f \in Files,
         CacheHit(f) \/ StoreFile(f) \/ FileFails(f) \/ StoreFails(f)
  PROVE  Progress'
<1>1. /\ [Next]_vars /\ Active /\ run.stage = "files" /\ f \in run.todo
      /\ UNCHANGED <<site, head, pruned, pushes, last, saved, crashes>>
  BY DEF CacheHit, StoreFile, FileFails, StoreFails, Next, Watcher, Failure,
         repository, state, history, Active
<1>2. run' = [stage |-> run.stage, to |-> run.to, gone |-> run.gone,
              todo |-> run.todo \ {f}, text |-> [run.text EXCEPT ![f] = Absent]]
  BY DoneRun DEF CacheHit, StoreFile, FileFails, StoreFails
<1>3. \A g \in Files : g # f => /\ sources'[g] = sources[g] /\ rows'[g] = rows[g]
                                /\ g \in failed => g \in failed'
  BY StoredRow DEF CacheHit, StoreFile, FileFails, StoreFails, TypeOK, index, history
<1>4. head \in Commits /\ head \in Ancestors[head] /\ run.to \in Ancestors[head]
      /\ Ancestors' = Ancestors /\ Tree' = Tree /\ Absent \notin Contents
  BY <1>1, SiteFields, SameSite DEF Ordered, TypeOK
<1>5. ASSUME f \notin failed', NEW c \in Commits, c = run.to
      PROVE  Indexed(f, c)'
  <2>1. CASE CacheHit(f)
    <3>1. run.text[f] # Absent /\ Hit(f) /\ f \notin failed
          /\ sources' = sources /\ rows' = rows
      BY <1>5, <2>1 DEF CacheHit, Hit, index, history
    <3>2. PICK h \in Commits : /\ run.to \in Ancestors[h] /\ h \in Ancestors[head]
                               /\ run.text[f] = Tree[h][f]
      BY <3>1 DEF Reading, Read
    <3>3. sources[f] = "live" /\ rows[f] = {run.text[f]}
      BY <3>1 DEF Reading, Read
    <3>4. View(f, h)'
      BY <1>4, <3>1, <3>2, <3>3 DEF View
    <3> QED BY <1>1, <1>4, <1>5, <3>2, <3>4 DEF Indexed
  <2>2. CASE StoreFile(f)
    <3>1. /\ run.text[f] # Absent /\ Source(f) # Absent
          /\ rows'[f] = {Source(f)} /\ sources'[f] = "live"
      BY <2>2, StoredRow DEF StoreFile, TypeOK
    <3>2. \E h \in Commits : /\ run.to \in Ancestors[h] /\ h \in Ancestors[head]
                             /\ Source(f) = Tree[h][f]
      BY <1>4, <3>1 DEF Reading, Read, Source
    <3>3. PICK h \in Commits : /\ run.to \in Ancestors[h] /\ h \in Ancestors[head]
                               /\ Source(f) = Tree[h][f]
      BY <3>2
    <3>4. View(f, h)'
      BY <1>4, <3>1, <3>3 DEF View
    <3> QED BY <1>1, <1>4, <1>5, <3>3, <3>4 DEF Indexed
  <2>3. CASE FileFails(f) \/ StoreFails(f)
    BY <1>5, <2>3 DEF FileFails, StoreFails
  <2> QED BY <2>1, <2>2, <2>3
<1> QED BY <1>1, <1>2, <1>3, <1>5, ProgressFile

LEMMA ProgressStep ==
  ASSUME TypeOK, HistoryGrows, Ordered, Progress, Reading, Keyed = {"name", "path"},
         [Next]_vars
  PROVE  Progress'
<1>0. \A f \in Files, c \in Commits :
        Indexed(f, c) /\ sources'[f] = sources[f] /\ rows'[f] = rows[f]
          /\ (crashes' = crashes \/ crashes' # 0) => Indexed(f, c)'
  BY IndexedSame
<1>1. None \notin Commits /\ run.to \in Commits \cup {None}
      /\ last \in Commits \cup {None} /\ saved \in Commits \cup {None}
      /\ run.gone \subseteq Files /\ run.todo \subseteq Files
  BY SiteFields, Fields DEF TypeOK
<1>2. CASE Check
  BY <1>2, CheckProgress
<1>3. ASSUME NEW f \in Files, MarkDeleted(f) \/ MarkDeletedFails(f)
      PROVE  Progress'
  BY <1>3, DeleteProgress
<1>4. ASSUME NEW f \in Files,
             CacheHit(f) \/ StoreFile(f) \/ FileFails(f) \/ StoreFails(f)
      PROVE  Progress'
  BY <1>4, FileProgress
<1>5. CASE Finish
  <2>1. /\ UNCHANGED <<rows, sources, saved, failed, crashes>>
        /\ last' = run.to /\ run.stage = "files" /\ run.todo = {}
        /\ run'.stage = "save"
    BY <1>5, IdleTyped DEF Finish, index, state, history
  <2>2. Active /\ ~Active' /\ run.gone = {}
    BY <2>1 DEF Active, Progress
  <2>3. run.to # None
    BY <2>2 DEF Ordered
  <2>4. \A f \in Files \ failed, c \in Commits : c \in {run.to, saved} => Indexed(f, c)
    BY <2>1, <2>2 DEF Progress
  <2> QED BY <1>0, <2>1, <2>2, <2>3, <2>4 DEF Progress, Active
<1>6. CASE SaveState
  <2>1. UNCHANGED <<rows, sources, last, failed, crashes>> /\ saved' = last
        /\ ~Active /\ ~Active' /\ run'.stage = "idle"
    BY <1>6 DEF SaveState, index, history, Active, Idle
  <2> QED BY <1>0, <2>1 DEF Progress, Active
<1>7. CASE OtherRenames
  <2>1. UNCHANGED <<site, rows, sources, last, run, failed, crashes>> /\ saved' \in other
    BY <1>7 DEF OtherRenames, index, history, repository
  <2>2. saved' = last \/ saved' = None \/
        /\ last # None /\ saved' \in Ancestors[last] /\ saved' \in Commits
    BY <2>1 DEF Ordered, TypeOK
  <2>3. ASSUME NEW f \in Files \ failed, NEW c \in Commits, c = saved'
        PROVE  Indexed(f, c)
    <3>1. c = last \/ (last \in Commits /\ c \in Ancestors[last])
      BY <1>1, <2>2, <2>3
    <3> QED BY <3>1, IndexedBefore DEF Progress
  <2>4. Tree' = Tree
    BY <2>1, SameSite
  <2> QED BY <1>0, <2>1, <2>3, <2>4 DEF Progress, Active
<1>8. CASE Crash
  <2>1. UNCHANGED <<rows, sources, failed, saved>> /\ crashes' = crashes + 1
        /\ (last' = saved \/ last' = None) /\ ~Active' /\ run'.stage = "idle"
    BY <1>8 DEF Crash, LoadState, Active, Idle
  <2>2. crashes' # 0
    BY <2>1 DEF TypeOK
  <2> QED BY <1>0, <1>1, <2>1, <2>2 DEF Progress, Active
<1>9. CASE ExpandDeps
  <2>1. PICK deps \in SUBSET Files :
          run' = [run EXCEPT !.stage = "files", !.todo = @ \cup deps]
    BY <1>9 DEF ExpandDeps, ReverseDeps
  <2>2. run' = [stage |-> "files", to |-> run.to, gone |-> run.gone,
                todo |-> run.todo \cup deps, text |-> run.text]
    BY <2>1, ExpandRun
  <2> QED BY <1>9, <2>2, ProgressKept DEF ExpandDeps, Active, index, state, history
<1>10. ASSUME NEW f \in Files, ReadFile(f) \/ ReadAhead(f)
       PROVE  Progress'
  <2>1. run'.stage = run.stage /\ run'.to = run.to /\ run'.gone = run.gone
        /\ run'.todo = run.todo
    BY <1>10, Fields DEF ReadFile, ReadAhead
  <2> QED BY <1>10, <2>1, ProgressKept
         DEF ReadFile, ReadAhead, Active, index, state, history, Progress
<1>11. CASE SetSHA
  <2>1. run'.stage = "rename" /\ ~Active /\ ~Active'
    BY <1>11, IdleTyped DEF SetSHA, Active
  <2> QED BY <1>11, <2>1, ProgressKept DEF SetSHA, index, history
<1>12. CASE SaveStateFails
  <2>1. run'.stage = "idle" /\ ~Active /\ ~Active'
    BY <1>12 DEF SaveStateFails, Active, Idle
  <2> QED BY <1>12, <2>1, ProgressKept DEF SaveStateFails, index, state, history
<1>13. CASE UNCHANGED vars \/ Prune \/ OtherMarshals \/ \E c \in Commits : Push(c)
  <2>1. UNCHANGED <<run, last, saved, rows, sources, failed, crashes>>
    BY <1>13 DEF vars, Prune, OtherMarshals, Push, index, state, history
  <2> QED BY <2>1, ProgressKept DEF Progress, Active
<1> QED BY <1>2, <1>3, <1>4, <1>5, <1>6, <1>7, <1>8, <1>9, <1>10, <1>11, <1>12, <1>13
       DEF Next, Watcher, Failure

-----------------------------------------------------------------------------
\* What was read, and what the cache has

\* A file no step touched.
LEMMA ReadSame ==
  ASSUME TypeOK, HistoryGrows, [Next]_vars, NEW f \in Files, Read(f),
         run'.text[f] = run.text[f], run'.to = run.to,
         run.text[f] # Absent => run'.stage = run.stage,
         cache'[f] = cache[f], rows'[f] = rows[f], sources'[f] = sources[f],
         f \in failed => f \in failed'
  PROVE  Read(f)'
<1>1. Tree' = Tree /\ Ancestors' = Ancestors
  BY SiteKept, SameSite
<1> SUFFICES ASSUME run.text[f] # Absent
             PROVE  Read(f)'
  BY DEF Read
<1>2. PICK h \in Commits : /\ run.to \in Ancestors[h] /\ h \in Ancestors[head]
                           /\ run.text[f] = Tree[h][f]
  BY DEF Read
<1>3. h \in Ancestors[head']
  BY <1>2, HeadMoves, Before DEF TypeOK
<1> QED BY <1>1, <1>2, <1>3 DEF Read, Hit

LEMMA EnteredSame ==
  ASSUME TypeOK, HistoryGrows, [Next]_vars, NEW f \in Files, Entered(f),
         cache'[f] = cache[f], rows'[f] = rows[f], sources'[f] = sources[f],
         f \in failed => f \in failed'
  PROVE  Entered(f)'
<1>1. Tree' = Tree /\ Ancestors' = Ancestors
  BY SiteKept, SameSite
<1> SUFFICES ASSUME f \notin failed, cache[f].hash # Absent, ~cache[f].deleted
             PROVE  Entered(f)'
  BY DEF Entered
<1>2. PICK i \in Commits : \E h \in Ancestors[i] :
         /\ i \in Ancestors[head]
         /\ cache[f].hash = Tree[h][f] /\ rows[f] = {Tree[i][f]}
  BY DEF Entered
<1>3. i \in Ancestors[head']
  BY <1>2, HeadMoves, Before DEF TypeOK
<1> QED BY <1>1, <1>2, <1>3 DEF Entered

\* Nothing is read of a run that is over or has not come to its files.
LEMMA NothingRead ==
  ASSUME \A f \in Files : run'.text[f] = Absent
  PROVE  Reading'
BY DEF Reading, Read

\* Reading a file: a hit is on an entry of claims that HEAD still has.
LEMMA ReadFresh ==
  ASSUME TypeOK, HistoryGrows, Ordered, Reading, Cached, NEW f \in Files,
         ReadFile(f) \/ ReadAhead(f)
  PROVE  Reading'
<1>1. /\ [Next]_vars /\ run.stage = "files" /\ Active
      /\ UNCHANGED <<site, head, rows, sources, cache, failed>>
  BY DEF ReadFile, ReadAhead, Next, Watcher, repository, index, history, Active
<1>2. run' = [stage |-> run.stage, to |-> run.to, gone |-> run.gone,
              todo |-> run.todo, text |-> [run.text EXCEPT ![f] = Tree[head][f]]]
  <2>1. Tree[head][f] \in Contents \cup {Absent}
    BY SiteFields DEF TypeOK
  <2> QED BY <2>1, ReadRun DEF ReadFile, ReadAhead
<1>3. /\ run.text \in [Files -> Contents \cup {Absent}] /\ head \in Commits
      /\ head \in Ancestors[head] /\ run.to \in Ancestors[head]
      /\ Tree' = Tree /\ Ancestors' = Ancestors
  BY <1>1, Fields, SiteFields, SameSite DEF TypeOK, Ordered
<1>4. \A g \in Files : g # f => Read(g)'
  BY <1>1, <1>2, <1>3, ReadSame DEF Reading
<1>5. Read(f)'
  <2>1. run'.text[f] = Tree[head][f] /\ run'.stage = "files" /\ run'.to = run.to
    BY <1>1, <1>2, <1>3
  <2>2. ASSUME Hit(f)', f \notin failed
        PROVE  sources[f] = "live" /\ rows[f] = {Tree[head][f]}
    <3>1. cache[f].hash = Tree[head][f] /\ cache[f].hash # Absent /\ ~cache[f].deleted
      BY <1>1, <2>1, <2>2 DEF Hit
    <3>2. PICK i \in Commits : \E h \in Ancestors[i] :
            /\ i \in Ancestors[head]
            /\ cache[f].hash = Tree[h][f] /\ rows[f] = {Tree[i][f]}
      BY <2>2, <3>1 DEF Cached, Entered
    <3>3. PICK h \in Ancestors[i] :
            /\ i \in Ancestors[head]
            /\ cache[f].hash = Tree[h][f] /\ rows[f] = {Tree[i][f]}
      BY <3>2
    <3>4. h \in Commits
      BY <3>3, SiteFields DEF TypeOK
    <3>5. h \in Ancestors[i] /\ i \in Ancestors[head] /\ Tree[h][f] = Tree[head][f]
      BY <3>1, <3>3
    <3>6. head \in Commits
      BY <1>3
    <3>7. Tree[i][f] = Tree[head][f]
      BY <3>4, <3>5, <3>6, Between
    <3> QED BY <2>2, <3>1, <3>3, <3>7 DEF Cached, Entered
  <2> QED BY <1>1, <1>3, <2>1, <2>2 DEF Read
<1> QED BY <1>4, <1>5 DEF Reading

LEMMA ReadingStep ==
  ASSUME TypeOK, HistoryGrows, Ordered, Reading, Cached, [Next]_vars
  PROVE  Reading'
<1>1. CASE Check
  BY <1>1, CheckRun, IdleTyped, NothingRead
<1>2. CASE Finish \/ SetSHA \/ SaveState \/ SaveStateFails \/ Crash
  <2>1. run' = Idle \/ \E s \in {"save", "rename"} : run' = [Idle EXCEPT !.stage = s]
    BY <1>2 DEF Finish, SetSHA, SaveState, SaveStateFails, Crash
  <2>2. run' = Idle => run'.text = Idle.text
    OBVIOUS
  <2>3. ASSUME NEW s \in {"save", "rename"}, run' = [Idle EXCEPT !.stage = s]
        PROVE  run'.text = Idle.text
    <3>1. run' = [stage |-> s, to |-> None, gone |-> {}, todo |-> {}, text |-> Idle.text]
      BY <2>3, IdleTyped
    <3> QED BY <3>1
  <2>4. run'.text = Idle.text
    BY <2>1, <2>2, <2>3
  <2> QED BY <2>4, IdleTyped, NothingRead
<1>3. ASSUME NEW f \in Files, MarkDeleted(f) \/ MarkDeletedFails(f)
      PROVE  Reading'
  <2>1. run' = [stage |-> run.stage, to |-> run.to, gone |-> run.gone \ {f},
                todo |-> run.todo, text |-> run.text]
    BY <1>3, GoneRun DEF MarkDeleted, MarkDeletedFails
  <2>2. run.stage = "delete"
    BY <1>3 DEF MarkDeleted, MarkDeletedFails
  <2> QED BY <2>1, <2>2, NothingRead DEF Reading, Read
<1>4. CASE ExpandDeps
  <2>1. PICK deps \in SUBSET Files :
          run' = [run EXCEPT !.stage = "files", !.todo = @ \cup deps]
    BY <1>4 DEF ExpandDeps, ReverseDeps
  <2>2. run' = [stage |-> "files", to |-> run.to, gone |-> run.gone,
                todo |-> run.todo \cup deps, text |-> run.text]
    BY <2>1, ExpandRun
  <2>3. run'.text = run.text
    BY <2>2
  <2>4. run.stage = "delete"
    BY <1>4 DEF ExpandDeps
  <2> QED BY <2>3, <2>4, NothingRead DEF Reading, Read
<1>5. ASSUME NEW f \in Files, ReadFile(f) \/ ReadAhead(f)
      PROVE  Reading'
  BY <1>5, ReadFresh
<1>6. ASSUME NEW f \in Files,
             CacheHit(f) \/ StoreFile(f) \/ FileFails(f) \/ StoreFails(f)
      PROVE  Reading'
  <2>1. run' = [stage |-> run.stage, to |-> run.to, gone |-> run.gone,
                todo |-> run.todo \ {f}, text |-> [run.text EXCEPT ![f] = Absent]]
    BY <1>6, DoneRun DEF CacheHit, StoreFile, FileFails, StoreFails
  <2>2. \A g \in Files : run'.text[g] = IF g = f THEN Absent ELSE run.text[g]
    BY <2>1, Fields
  <2>3. \A g \in Files : g # f =>
          /\ cache'[g] = cache[g] /\ rows'[g] = rows[g] /\ sources'[g] = sources[g]
          /\ g \in failed => g \in failed'
    BY <1>6 DEF CacheHit, StoreFile, FileFails, StoreFails, Put, Stored, TypeOK,
                index, history
  <2>4. \A g \in Files : g # f => Read(g)'
    BY <2>1, <2>2, <2>3, ReadSame DEF Reading
  <2>5. Read(f)'
    BY <2>2 DEF Read
  <2> QED BY <2>4, <2>5 DEF Reading
<1>7. CASE UNCHANGED vars \/ Prune \/ OtherMarshals \/ OtherRenames
           \/ \E c \in Commits : Push(c)
  <2>1. UNCHANGED <<run, rows, sources, cache, failed>>
    BY <1>7 DEF vars, Prune, OtherMarshals, OtherRenames, Push, index, state, history
  <2> QED BY <2>1, ReadSame DEF Reading
<1> QED BY <1>1, <1>2, <1>3, <1>4, <1>5, <1>6, <1>7 DEF Next, Watcher, Failure

LEMMA CachedStep ==
  ASSUME TypeOK, HistoryGrows, Ordered, Reading, Cached, Keyed = {"name", "path"},
         [Next]_vars
  PROVE  Cached'
<1>1. ASSUME NEW f \in Files,
             \A g \in Files : g # f =>
               /\ cache'[g] = cache[g] /\ rows'[g] = rows[g] /\ sources'[g] = sources[g]
               /\ g \in failed => g \in failed',
             Entered(f)'
      PROVE  Cached'
  BY <1>1, EnteredSame DEF Cached
<1>2. ASSUME NEW f \in Files, MarkDeleted(f)
      PROVE  Cached'
  <2>1. \A g \in Files : g # f =>
          /\ cache'[g] = cache[g] /\ rows'[g] = rows[g] /\ sources'[g] = sources[g]
          /\ g \in failed => g \in failed'
    BY <1>2 DEF MarkDeleted, TypeOK
  <2>2. cache[f] \in Entry
        /\ cache'[f] = [cache[f] EXCEPT !.deleted = cache[f].hash # Absent]
    BY <1>2 DEF MarkDeleted, TypeOK
  <2>3. cache'[f].hash = cache[f].hash /\ cache'[f].deleted = (cache[f].hash # Absent)
    BY <2>2 DEF Entry
  <2> QED BY <1>1, <2>1, <2>3 DEF Entered
<1>3. ASSUME NEW f \in Files, MarkDeletedFails(f) \/ StoreFails(f)
      PROVE  Cached'
  <2>1. /\ \A g \in Files : g # f =>
             /\ cache'[g] = cache[g] /\ rows'[g] = rows[g] /\ sources'[g] = sources[g]
             /\ g \in failed => g \in failed'
        /\ f \in failed'
    BY <1>3 DEF MarkDeletedFails, StoreFails, Put, TypeOK
  <2> QED BY <1>1, <2>1 DEF Entered
<1>4. ASSUME NEW f \in Files, StoreFile(f)
      PROVE  Cached'
  <2>1. \A g \in Files : g # f =>
          /\ cache'[g] = cache[g] /\ rows'[g] = rows[g] /\ sources'[g] = sources[g]
          /\ g \in failed => g \in failed'
    BY <1>4, StoredRow DEF StoreFile, Put, TypeOK
  <2>2. /\ cache'[f] = [hash |-> run.text[f], deleted |-> FALSE]
        /\ rows'[f] = {Source(f)} /\ sources'[f] = "live" /\ run.text[f] # Absent
        /\ head' = head /\ site' = site
    BY <1>4, StoredRow DEF StoreFile, Put, TypeOK, repository
  <2>3. PICK h \in Commits : /\ run.to \in Ancestors[h] /\ h \in Ancestors[head]
                             /\ run.text[f] = Tree[h][f]
    BY <2>2 DEF Reading, Read
  <2>4. \E i \in Commits : /\ h \in Ancestors[i] /\ i \in Ancestors[head]
                           /\ Source(f) = Tree[i][f]
    <3>1. CASE Local
      BY <2>3, <3>1, SiteFields DEF Source, TypeOK
    <3>2. CASE ~Local
      BY <2>3, <3>2, SiteFields DEF Source
    <3> QED BY <3>1, <3>2
  <2>5. Entered(f)'
    BY <2>2, <2>3, <2>4, SameSite DEF Entered
  <2> QED BY <1>1, <2>1, <2>5
<1>5. CASE Crash
  <2>1. \A f \in Files : cache'[f].hash = Absent
    BY <1>5 DEF Crash, NoEntry
  <2> QED BY <2>1 DEF Cached, Entered
<1>6. CASE cache' = cache /\ rows' = rows /\ sources' = sources /\ failed \subseteq failed'
  BY <1>6, EnteredSame DEF Cached
<1> QED BY <1>2, <1>3, <1>4, <1>5, <1>6
       DEF Next, vars, Push, Prune, Watcher, Failure, Check, ExpandDeps, Finish, SetSHA,
           SaveState, ReadFile, ReadAhead, CacheHit, FileFails, SaveStateFails,
           OtherMarshals, OtherRenames, index, history

-----------------------------------------------------------------------------
\* At rest the index is that of HEAD

\* Inductive.
IndexSound == HistoryGrows => Ordered /\ Reading /\ Cached /\ Progress

LEMMA InitSound == Init => IndexSound
<1> SUFFICES ASSUME Init
             PROVE  Ordered /\ Reading /\ Cached /\ Progress
  BY DEF IndexSound
<1>1. Ordered
  BY InitOrdered
<1>2. Reading
  BY DEF Init, Idle, Reading, Read
<1>3. Cached
  BY DEF Init, NoEntry, Cached, Entered
<1>4. Progress
  BY RepositoryAssumption DEF Init, Idle, Progress, Active, RepositoryAssumption
<1> QED BY <1>1, <1>2, <1>3, <1>4

LEMMA AlwaysSound ==
  ASSUME Keyed = {"name", "path"}
  PROVE  Spec => []IndexSound
<1>1. TypeOK /\ IndexSound /\ [Next]_vars => IndexSound'
  BY SiteKept, GrowsStill, OrderedStep, ReadingStep, CachedStep, ProgressStep
     DEF IndexSound
<1> QED BY <1>1, InitSound, TypeCorrect, PTL DEF Spec

\* At rest a file is indexed as HEAD has it.
LEMMA AtRestView ==
  ASSUME TypeOK, IndexSound, AtRest, HistoryGrows, NEW f \in Files \ failed
  PROVE  View(f, head)
<1>1. head \in Commits /\ head \in {last, saved}
  BY DEF TypeOK, AtRest
<1>2. Indexed(f, head)
  BY <1>1 DEF IndexSound, Progress
<1>3. PICK h \in Commits : head \in Ancestors[h] /\ h \in Ancestors[head] /\ View(f, h)
  BY <1>2 DEF Indexed
<1>4. Tree[h][f] = Tree[head][f]
  BY <1>1, <1>3, Between
<1> QED BY <1>3, <1>4 DEF View

\* At rest the claims of every file of HEAD are those of its content there, whatever
\* was pushed while files were read, wherever the process was killed, and whatever
\* the state file resumed from.
THEOREM IndexCurrent ==
  ASSUME Keyed = {"name", "path"}
  PROVE  Spec => []ContentCurrent
<1>1. TypeOK /\ IndexSound => ContentCurrent
  BY AtRestView DEF ContentCurrent, View
<1> QED BY <1>1, AlwaysSound, TypeCorrect, PTL

\* Before the first restart no file that HEAD lacks is live.
THEOREM GhostFree ==
  ASSUME Keyed = {"name", "path"}
  PROVE  Spec => []NoGhosts
<1>1. TypeOK /\ IndexSound => NoGhosts
  BY AtRestView DEF NoGhosts, View
<1> QED BY <1>1, AlwaysSound, TypeCorrect, PTL
=============================================================================
