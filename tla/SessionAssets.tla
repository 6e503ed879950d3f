--------------------------- MODULE SessionAssets ---------------------------
(***************************************************************************)
(* The sessions codex keeps in its home, as the account feature handles    *)
(* them: into the trash, back out of it, in from an exported package, and  *)
(* their repair once the model provider was changed.  Each action is a     *)
(* process of its own, one at a time (operation_lock), which may fail or   *)
(* die between any two writes; codex, which knows no lock, writes beside.  *)
(***************************************************************************)
EXTENDS Naturals

CONSTANTS
  Sessions,    \* sessions
  First,       \* those codex has at first
  Into,        \* sets of databases codex may give a session rows in
  MaxPackages, \* bound: packages in the trash
  MaxFaults    \* bound: writes that fail, processes that die

VARIABLES
  home,     \* sessions whose rollout is in codex's home
  index,    \* sessions with an entry in session_index.jsonl
  manifest, \* each package's manifest: what it says of each session
  files,    \* the rollouts in each package
  made,     \* packages made
  repaired, \* rollouts that name the current model provider
  stored,   \* sessions with a row in each state_5.sqlite that is there
  rows,     \* those of its rows that name the current model provider
  op,       \* the action under way, with what it found and writes back if it fails
            \* (then), a repair's database (store) and what codex wrote beside it (beside)
  known,    \* sessions codex ever had here
  faults,   \* faults so far
  scarred   \* an action died or failed while it took back what it had done

assets == <<home, index, manifest, files, made, repaired, stored, rows>>
vars   == <<assets, op, known, faults, scarred>>

Packages == 1..MaxPackages

\* state_5.sqlite in the home and in its sqlite directory, in the order of their repair.
Stores       == 1..2
Following(n) == {d \in DOMAIN stored : d > n /\ \A e \in DOMAIN stored : e > n => d <= e}

\* out: not named; plain, noted: named, without and with an index entry.
Manifests   == [Sessions -> {"out", "plain", "noted"}]
NoManifest  == [s \in Sessions |-> "out"]
Items(p)    == {s \in Sessions : manifest[p][s] # "out"}

Kinds  == {"trash", "restore", "import", "repair"}
Stages == {"manifest", "move", "manifests", "index"}
Backs  == {"back", "remanifest", "reindex", "remove"}
Idle   == [kind |-> "none", stage |-> "none", todo |-> {}, at |-> [s \in Sessions |-> 0],
           done |-> {}, entries |-> {}, written |-> {}, then |-> <<>>, store |-> 0,
           beside |-> {}]
Found  == [home |-> home, index |-> index, manifest |-> manifest, files |-> files,
           repaired |-> repaired, rows |-> rows]
Begun  == [Idle EXCEPT !.then = Found]

TypeOK ==
  /\ {home, index, repaired} \subseteq SUBSET Sessions
  /\ \E there \in SUBSET Stores : {stored, rows} \subseteq [there -> SUBSET Sessions]
  /\ manifest \in [Packages -> Manifests]
  /\ files \in [Packages -> SUBSET Sessions]
  /\ made \in 0..MaxPackages
  /\ op.kind \in Kinds \cup {"none"} /\ op.stage \in Stages \cup Backs \cup {"none"}
  /\ {op.todo, op.done, op.entries} \subseteq SUBSET Sessions
  /\ op.at \in [Sessions -> 0..MaxPackages] /\ op.written \subseteq Packages
  /\ op.store \in Stores \cup {0}
  /\ op.beside \subseteq Sessions /\ known \subseteq Sessions
  /\ faults \in 0..MaxFaults /\ scarred \in BOOLEAN

Init ==
  /\ home = First /\ index \in SUBSET First
  /\ manifest = [p \in Packages |-> NoManifest]
  /\ files = [p \in Packages |-> {}] /\ made = 0
  /\ repaired = {}
  /\ \E there \in SUBSET Stores :
       stored \in [there -> SUBSET First] /\ rows = [d \in there |-> {}]
  /\ op = Idle /\ known = First
  /\ faults = 0 /\ scarred = FALSE

-----------------------------------------------------------------------------
(* What a write does: atomic_write puts a new file in place of the old, and *)
(* may raise before that or, at the directory's fsync, after it.            *)

Fault == faults < MaxFaults /\ faults' = faults + 1

\* done: the write and all that follows if it works; undo: how it goes on if not.
Writes(var, new, goesOn, fails) ==
  \/ var' = new /\ goesOn /\ UNCHANGED faults
  \/ var' \in {var, new} /\ fails /\ Fault

Ends   == op' = Idle /\ UNCHANGED scarred
Breaks == op' = Idle /\ scarred' = TRUE

\* Where taking back begins: with the moves.
Fails == op' = [op EXCEPT !.stage = "back"] /\ UNCHANGED scarred

GoesTo(stage) == op' = [op EXCEPT !.stage = stage] /\ UNCHANGED scarred

\* The process dies.
Crash ==
  /\ op.kind # "none" /\ Fault
  /\ op' = Idle /\ scarred' = (scarred \/ op.stage \in Backs)
  /\ UNCHANGED <<assets, known>>

-----------------------------------------------------------------------------
(* sessions.trash                                                          *)

\* A bug: the files go before the manifest that names them is written.
TrashStageSwapped == "move"

TrashStage == "manifest"

\* trash_sessions, as far as it only reads: nothing is done for no session.
Trash(want) ==
  /\ op.kind = "none" /\ made < MaxPackages /\ want \cap home # {}
  /\ made' = made + 1
  /\ op' = [Begun EXCEPT !.kind = "trash", !.stage = TrashStage, !.todo = want \cap home,
              !.at = [s \in Sessions |-> made + 1], !.entries = index \ (want \cap home)]
  /\ UNCHANGED <<home, index, manifest, files, repaired, stored, rows, known, faults, scarred>>

TrashManifest ==
  /\ op.kind = "trash" /\ op.stage = "manifest"
  /\ Writes(manifest,
            [manifest EXCEPT ![made] = [s \in Sessions |->
               IF s \notin op.todo \cup op.done THEN "out"
               ELSE IF s \in op.then.index THEN "noted" ELSE "plain"]],
            GoesTo(IF op.todo = {} THEN "index" ELSE "move"), Fails)
  /\ UNCHANGED <<home, index, files, made, repaired, stored, rows, known>>

\* One rollout after the other; one that is gone by now cannot be moved.
TrashMove ==
  /\ op.kind = "trash" /\ op.stage = "move"
  /\ \/ \E s \in op.todo \cap home :
          /\ home' = home \ {s} /\ files' = [files EXCEPT ![made] = @ \cup {s}]
          /\ op' = [op EXCEPT !.todo = @ \ {s}, !.done = @ \cup {s},
                      !.stage = IF op.todo # {s} THEN "move"
                                ELSE IF TrashStage = "move" THEN "manifest" ELSE "index"]
          /\ UNCHANGED <<faults, scarred>>
     \/ /\ op.todo # {} /\ Fails /\ Fault /\ UNCHANGED <<home, files>>
  /\ UNCHANGED <<index, manifest, made, repaired, stored, rows, known>>

-----------------------------------------------------------------------------
(* sessions.restore                                                        *)

\* Where each wanted session can be restored from: its path in the home is free.
Plans(want) ==
  {at \in [Sessions -> 0..made] :
     \A s \in Sessions :
       IF s \in want \ home /\ \E p \in 1..made : s \in Items(p)
       THEN at[s] # 0 /\ s \in Items(at[s]) ELSE at[s] = 0}

\* A package names a wanted session and does not hold it: nothing is restored.
Unsafe(want) == \E p \in 1..made : \E s \in want \cap Items(p) : s \notin files[p]

\* restore_sessions, as far as it only reads.
Restore(want) ==
  /\ op.kind = "none" /\ want # {}
  /\ IF Unsafe(want)
     THEN op' = [Begun EXCEPT !.kind = "restore", !.stage = "back"]
     ELSE \E at \in Plans(want) :
            LET planned == {s \in Sessions : at[s] # 0} IN
            /\ planned # {}
            /\ op' = [Begun EXCEPT !.kind = "restore", !.stage = "move", !.todo = planned,
                        !.at = at, !.entries = index, !.written = {at[s] : s \in planned}]
  /\ UNCHANGED <<assets, known, faults, scarred>>

RestoreMove ==
  /\ op.kind = "restore" /\ op.stage = "move"
  /\ \/ \E s \in op.todo :
          /\ home' = home \cup {s} /\ files' = [files EXCEPT ![op.at[s]] = @ \ {s}]
          /\ op' = [op EXCEPT !.todo = @ \ {s}, !.done = @ \cup {s},
                      !.entries = IF manifest[op.at[s]][s] = "noted" THEN @ \cup {s} ELSE @,
                      !.stage = IF op.todo = {s} THEN "manifests" ELSE "move"]
          /\ UNCHANGED <<faults, scarred>>
     \/ Fails /\ Fault /\ UNCHANGED <<home, files>>
  /\ UNCHANGED <<index, manifest, made, repaired, stored, rows, known>>

\* The sessions that are back leave the manifests; one that names none goes.
RestoreManifest ==
  /\ op.kind = "restore" /\ op.stage = "manifests"
  /\ \E p \in op.written :
       Writes(manifest,
              [manifest EXCEPT ![p] = [s \in Sessions |->
                 IF op.at[s] = p THEN "out" ELSE manifest[p][s]]],
              op' = [op EXCEPT !.written = @ \ {p},
                       !.stage = IF op.written = {p} THEN "index" ELSE @] /\ UNCHANGED scarred,
              Fails)
  /\ UNCHANGED <<home, index, files, made, repaired, stored, rows, known>>

-----------------------------------------------------------------------------
(* sessions.import                                                         *)

\* import_sessions: a session that is here, or whose path is taken, is skipped.
Import(want) ==
  /\ op.kind = "none" /\ want # {}
  /\ op' = [Begun EXCEPT !.kind = "import", !.todo = want \ home, !.entries = index,
              !.stage = IF want \ home = {} THEN "index" ELSE "move"]
  /\ UNCHANGED <<assets, known, faults, scarred>>

\* An item at a time is read, checked and written; one that is not as the package's
\* manifest says fails them all.
ImportWrite ==
  /\ op.kind = "import" /\ op.stage = "move"
  /\ \/ \E s \in op.todo, noted \in BOOLEAN :
          Writes(home, home \cup {s},
                 op' = [op EXCEPT !.todo = @ \ {s}, !.done = @ \cup {s},
                          !.entries = IF noted THEN @ \cup {s} ELSE @,
                          !.stage = IF op.todo = {s} THEN "index" ELSE "move"]
                   /\ UNCHANGED scarred,
                 Fails)
     \/ Fails /\ UNCHANGED <<home, faults>>
  /\ UNCHANGED <<index, manifest, files, made, repaired, stored, rows, known>>

\* The last write of all three: the index as it was read, changed.
WriteIndex ==
  /\ op.stage = "index"
  /\ Writes(index, op.entries, Ends /\ known' = known \cup op.done, Fails /\ UNCHANGED known)
  /\ UNCHANGED <<home, manifest, files, made, repaired, stored, rows>>

-----------------------------------------------------------------------------
(* sessions.repair                                                         *)

\* The rollouts a database's rows name that do not name the provider.
Stale(d) == (stored[d] \cap home) \ repaired

\* repair_visibility: a database after the other, each in a transaction of its own (BEGIN
\* IMMEDIATE), which changes its rows where nobody sees it.
Repair ==
  /\ op.kind = "none"
  /\ \E d \in Following(0) :
       op' = [Begun EXCEPT !.kind = "repair", !.stage = "move", !.store = d]
  /\ UNCHANGED <<assets, known, faults, scarred>>

\* What is no JSON, a write that fails or a database that is busy takes it back.
RepairRollout ==
  /\ op.kind = "repair" /\ op.stage = "move"
  /\ \/ \E s \in Stale(op.store) :
          Writes(repaired, repaired \cup {s},
                 op' = [op EXCEPT !.done = @ \cup {s}] /\ UNCHANGED scarred,
                 op' = [op EXCEPT !.done = @ \cup {s}, !.stage = "back"] /\ UNCHANGED scarred)
     \/ Fails /\ UNCHANGED <<repaired, faults>>
  /\ UNCHANGED <<home, index, manifest, files, made, stored, rows, known>>

\* All of the database's rows name the provider, and what it has rewritten stays.
RepairCommit ==
  /\ op.kind = "repair" /\ op.stage = "move" /\ Stale(op.store) = {}
  /\ rows' = [rows EXCEPT ![op.store] = stored[op.store]]
  /\ \/ Following(op.store) = {} /\ Ends
     \/ /\ \E d \in Following(op.store) : op' = [op EXCEPT !.store = d, !.done = {}]
        /\ UNCHANGED scarred
  /\ UNCHANGED <<home, index, manifest, files, made, repaired, stored, known, faults>>

-----------------------------------------------------------------------------
(* Taking it back: the moves, a restore's manifests, the index, a trash's   *)
(* package.  What fails here is not tried again.                            *)

\* A rollout goes back to where it was, if nothing is there by now.
MoveBack ==
  /\ op.stage = "back" /\ op.kind \in {"trash", "restore"} /\ op.done # {}
  /\ \/ \E s \in op.done :
          /\ IF op.kind = "trash"
             THEN /\ home' = home \cup {s} /\ files' = [files EXCEPT ![made] = @ \ {s}]
             ELSE /\ home' = home \ {s} /\ files' = [files EXCEPT ![op.at[s]] = @ \cup {s}]
          /\ op' = [op EXCEPT !.done = @ \ {s}]
          /\ UNCHANGED <<faults, scarred>>
     \/ Breaks /\ Fault /\ UNCHANGED <<home, files>>
  /\ UNCHANGED <<index, manifest, made, repaired, stored, rows, known>>

\* An imported rollout is deleted; one whose write failed late stays behind.
Unimport ==
  /\ op.stage = "back" /\ op.kind = "import" /\ op.done # {}
  /\ \/ home' = home \ op.done /\ op' = [op EXCEPT !.done = {}] /\ UNCHANGED <<faults, scarred>>
     \/ Breaks /\ Fault /\ UNCHANGED home
  /\ UNCHANGED <<index, manifest, files, made, repaired, stored, rows, known>>

\* A bug: a repair that failed leaves the rollouts it has rewritten.
UnrepairNot ==
  /\ op.stage = "back" /\ op.kind = "repair" /\ Ends
  /\ UNCHANGED <<assets, known, faults>>

\* One rollout after the other that the open transaction went with, none of an earlier one.
Unrepair ==
  /\ op.stage = "back" /\ op.kind = "repair"
  /\ \/ op.done = {} /\ Ends /\ UNCHANGED <<repaired, faults>>
     \/ \E s \in op.done :
          Writes(repaired, repaired \ {s}, op' = [op EXCEPT !.done = @ \ {s}] /\ UNCHANGED scarred,
                 Breaks)
  /\ UNCHANGED <<home, index, manifest, files, made, stored, rows, known>>

MovedBack ==
  /\ op.stage = "back" /\ op.kind # "repair" /\ op.done = {}
  /\ GoesTo(IF op.kind = "restore" THEN "remanifest" ELSE "reindex")
  /\ UNCHANGED <<assets, known, faults>>

ManifestsBack ==
  /\ op.stage = "remanifest"
  /\ Writes(manifest, op.then.manifest, GoesTo("reindex"), Breaks)
  /\ UNCHANGED <<home, index, files, made, repaired, stored, rows, known>>

\* The index is written as it was found, whatever codex has added since.
Reindex ==
  /\ op.stage = "reindex"
  /\ Writes(index, op.then.index, IF op.kind = "trash" THEN GoesTo("remove") ELSE Ends, Breaks)
  /\ UNCHANGED <<home, manifest, files, made, repaired, stored, rows, known>>

\* shutil.rmtree(ignore_errors=True)
Remove ==
  /\ op.stage = "remove"
  /\ \/ /\ manifest' = [manifest EXCEPT ![made] = NoManifest]
        /\ files' = [files EXCEPT ![made] = {}]
        /\ Ends /\ UNCHANGED faults
     \/ Breaks /\ Fault /\ UNCHANGED <<manifest, files>>
  /\ UNCHANGED <<home, index, made, repaired, stored, rows, known>>

-----------------------------------------------------------------------------
(* Codex.                                                                  *)

Somewhere(s) == s \in home \/ \E p \in Packages : s \in files[p]

\* A repair has the database to itself.
Held(d) == op.kind = "repair" /\ op.stage = "move" /\ op.store = d

\* A new session, of the current provider (named) or another, or a title for one that has
\* none yet; none of those an import has not yet finished with.  Where it has no row yet it
\* may get one.
CodexWrites(s, into, named) ==
  LET gets == {d \in into \cap DOMAIN stored : s \notin stored[d]} IN
  /\ s \notin index /\ (s \in home \/ ~Somewhere(s))
  /\ op.kind = "import" => s \notin op.todo \cup op.done
  /\ s \in home => named = (s \in repaired)
  /\ \A d \in gets : ~Held(d)
  /\ home' = home \cup {s} /\ index' = index \cup {s}
  /\ repaired' = IF named THEN repaired \cup {s} ELSE repaired \ {s}
  /\ stored' = [d \in DOMAIN stored |-> stored[d] \cup {t \in {s} : d \in gets}]
  /\ rows' = [d \in DOMAIN rows |-> rows[d] \cup {t \in {s} : d \in gets /\ named}]
  /\ known' = known \cup {s}
  /\ op' = IF op.kind = "none" THEN op ELSE [op EXCEPT !.beside = @ \cup {s}]
  /\ UNCHANGED <<manifest, files, made, faults, scarred>>

Next ==
  \/ \E want \in SUBSET Sessions : Trash(want) \/ Restore(want) \/ Import(want)
  \/ TrashManifest \/ TrashMove \/ RestoreMove \/ RestoreManifest \/ ImportWrite
  \/ WriteIndex \/ Repair \/ RepairRollout \/ RepairCommit
  \/ MoveBack \/ Unimport \/ Unrepair \/ MovedBack \/ ManifestsBack \/ Reindex \/ Remove
  \/ Crash
  \/ \E s \in Sessions, into \in Into, named \in BOOLEAN : CodexWrites(s, into, named)

Spec == Init /\ [][Next]_vars

-----------------------------------------------------------------------------
\* No session is lost: wherever an action dies or fails, each session codex ever had
\* here is in its home, or in a package that holds it and whose manifest names it;
\* except where the taking back itself is under way or has failed.
NeverLost ==
  op.stage \notin Backs /\ ~scarred =>
    \A s \in known : s \in home \/ \E p \in Packages : s \in files[p] /\ s \in Items(p)

\* What a repair has committed when a later database fails: its error takes none of it back.
Committed == {d \in DOMAIN stored : d < op.store}

\* A failed action has done nothing but what it had committed before: once it has taken the
\* rest back, home, packages, rollouts and rows are as it found them, but for what codex
\* wrote beside it, for the one imported rollout whose write failed when it stood in its
\* place already, and for the databases a repair was done with: of each of them every
\* row, and every rollout the rows name, is repaired, and of no other any.
AllOrNothing ==
  [][op.stage \in Backs /\ op'.kind = "none" /\ ~scarred' =>
       /\ op.then.home \subseteq home'
       /\ \A s, t \in home' \ (op.then.home \cup op.beside) : op.kind = "import" /\ s = t
       /\ <<manifest', files'>> = <<op.then.manifest, op.then.files>>
       /\ index' \ op.beside = op.then.index \ op.beside
       /\ repaired' \ op.beside =
            (op.then.repaired \cup UNION {stored[d] \cap op.then.home : d \in Committed}) \ op.beside
       /\ \A d \in DOMAIN stored :
            rows'[d] \ op.beside =
              (IF d \in Committed THEN stored[d] ELSE op.then.rows[d]) \ op.beside]_vars
=============================================================================
