------------------------------ MODULE KGSnapshot ------------------------------
(***************************************************************************)
(* `kg snapshot` and `kg init --from-snapshot`: a compressed copy of the   *)
(* database is made beside it, and put in its place again.                 *)
(*                                                                         *)
(* A restore moves the database and its write-ahead file aside, installs   *)
(* the unpacked copy and makes the directory durable; if a step raises, it *)
(* undoes what it did in the reverse order.  It may die at any step, and   *)
(* nothing keeps other commands away meanwhile.                            *)
(*                                                                         *)
(* A file stands for the pages one reads with it, which are in turn the    *)
(* entities they hold; the -shm file can be rebuilt and is left out.       *)
(* Temporary files are gone when a command ends and are left out too.      *)
(* This is a component: KGUpkeep composes it with the wiki.                *)
(***************************************************************************)
EXTENDS FiniteSets, Naturals

CONSTANTS
  Entities,    \* active nodes
  Restores,    \* processes that restore, again and again
  Backups,     \* processes that take snapshots
  MaxLeft,     \* bound on the sets of files that dead restores leave aside
  Missing      \* no such file

ASSUMPTION SnapshotAssumption == MaxLeft \in Nat /\ \A graph \in SUBSET Entities : Missing # graph

VARIABLES
  live,        \* kg.db, and kg.db-wal with what a reader of both sees
  artifact,    \* kg.db.zst
  restore,     \* where each restore stands, what it unpacked and what it moved aside
  backup,      \* what each snapshot command has copied
  left,        \* history: what restores that died, or failed to undo, had aside
  last,        \* history: the files as the last command that ended left them
  disturbed    \* history: a command wrote while the files were being exchanged

snapshotVars == <<live, artifact, restore, backup, left, last, disturbed>>

Graphs == SUBSET Entities
Copies == {Missing} \union Graphs
Parts == {"db", "wal"}
Files == [Parts -> Copies]
NoFiles == [part \in Parts |-> Missing]
Closed(graph) == [NoFiles EXCEPT !["db"] = graph]

RestoreSteps == {"idle", "move_db", "move_wal", "install", "settle", "discard",
                 "remove", "back_wal", "back_db"}
IdleRestore == [at |-> "idle", graph |-> Missing, moved |-> NoFiles]

SnapshotTypeOK ==
  /\ live \in Files /\ last \in Files
  /\ artifact \in Copies
  /\ restore \in [Restores -> [at : RestoreSteps, graph : Copies, moved : Files]]
  /\ backup \in [Backups -> Copies]
  /\ left \subseteq Files
  /\ disturbed \in BOOLEAN

SnapshotInit ==
  /\ live = NoFiles /\ last = NoFiles
  /\ artifact \in Copies
  /\ restore = [r \in Restores |-> IdleRestore]
  /\ backup = [s \in Backups |-> Missing]
  /\ left = {}
  /\ disturbed = FALSE

\* SQLite reads the pages of the write-ahead file over those of the database.
Current(files) == IF files["wal"] = Missing THEN files["db"] ELSE files["wal"]

\* Opening a database that is not there creates an empty one, whose write-ahead
\* file SQLite drops.
Opened(files) == IF files["db"] = Missing THEN Closed({}) ELSE files

Exchanging == {r \in Restores : restore[r].at \notin {"idle", "move_db", "discard"}}

---------------------------------------------------------------------------
(* Other commands *)

\* Any command opens the database and may leave a changed graph in it, in the
\* database itself or in the write-ahead file.
Commit(graph, checkpointed) ==
  LET files == Opened(live) IN
  /\ live' = IF checkpointed THEN Closed(graph) ELSE [files EXCEPT !["wal"] = graph]
  /\ last' = live'
  /\ disturbed' = (disturbed \/ Exchanging # {})
  /\ UNCHANGED <<artifact, restore, backup, left>>

\* A command that only reads opens the database all the same, and drops what a
\* restore has left of it.
OpenDatabase ==
  /\ live' = Opened(live)
  /\ last' = IF live = NoFiles /\ last = NoFiles THEN live' ELSE last
  /\ disturbed' = (disturbed \/ (live' # live /\ (Exchanging # {} \/ live # NoFiles)))
  /\ UNCHANGED <<artifact, restore, backup, left>>

---------------------------------------------------------------------------
(* create_snapshot *)

\* SQLite's backup reads one committed state of both files.
CopyDatabase(s) ==
  /\ backup[s] = Missing
  /\ live["db"] # Missing
  /\ backup' = [backup EXCEPT ![s] = Current(live)]
  /\ UNCHANGED <<live, artifact, restore, left, last, disturbed>>

PublishArtifact(s) ==
  /\ backup[s] # Missing
  /\ artifact' = backup[s]
  /\ backup' = [backup EXCEPT ![s] = Missing]
  /\ UNCHANGED <<live, restore, left, last, disturbed>>

\* An error or a crash before the artifact is replaced.
AbandonSnapshot(s) ==
  /\ backup[s] # Missing
  /\ backup' = [backup EXCEPT ![s] = Missing]
  /\ UNCHANGED <<live, artifact, restore, left, last, disturbed>>

---------------------------------------------------------------------------
(* restore_snapshot *)

Goto(r, step) == restore' = [restore EXCEPT ![r].at = step]

\* An artifact that is too large or corrupt is refused here, with nothing changed.
Unpack(r, force) ==
  /\ restore[r].at = "idle"
  /\ artifact # Missing
  /\ live["db"] = Missing \/ force
  /\ restore' = [restore EXCEPT ![r].at = "move_db", ![r].graph = artifact]
  /\ UNCHANGED <<live, artifact, backup, left, last, disturbed>>

MoveAside(r, part) ==
  /\ restore[r].at = IF part = "db" THEN "move_db" ELSE "move_wal"
  /\ live' = [live EXCEPT ![part] = Missing]
  /\ restore' = [restore EXCEPT ![r].moved = [@ EXCEPT ![part] = live[part]],
                                ![r].at = IF part = "db" THEN "move_wal" ELSE "install"]
  /\ disturbed' = (disturbed \/ Exchanging \ {r} # {})
  /\ UNCHANGED <<artifact, backup, left, last>>

Install(r) ==
  /\ restore[r].at = "install"
  /\ live' = [live EXCEPT !["db"] = restore[r].graph]
  /\ Goto(r, "settle")
  /\ UNCHANGED <<artifact, backup, left, last, disturbed>>

\* The directory is durable: from here on the restored database counts.
Settle(r) ==
  /\ restore[r].at = "settle"
  /\ last' = live
  /\ Goto(r, "discard")
  /\ UNCHANGED <<live, artifact, backup, left, disturbed>>

Discard(r) ==
  /\ restore[r].at = "discard"
  /\ restore' = [restore EXCEPT ![r] = IdleRestore]
  /\ UNCHANGED <<live, artifact, backup, left, last, disturbed>>

\* Mutant: what was moved aside is discarded when a step raised, too.
RaiseDiscarding(r) ==
  /\ restore[r].at \in {"move_wal", "install", "settle"}
  /\ Goto(r, "discard")
  /\ UNCHANGED <<live, artifact, backup, left, last, disturbed>>

\* A step raises.  If it is the first, there is nothing to undo: DieRestoring.
Raise(r) ==
  /\ restore[r].at \in {"move_wal", "install", "settle"}
  /\ Goto(r, IF restore[r].at = "settle" THEN "remove" ELSE "back_wal")
  /\ UNCHANGED <<live, artifact, backup, left, last, disturbed>>

RemoveInstalled(r) ==
  /\ restore[r].at = "remove"
  /\ live' = [live EXCEPT !["db"] = Missing]
  /\ Goto(r, "back_wal")
  /\ UNCHANGED <<artifact, backup, left, last, disturbed>>

PutBack(r, part) ==
  /\ restore[r].at = IF part = "db" THEN "back_db" ELSE "back_wal"
  /\ live' = IF restore[r].moved[part] = Missing THEN live
             ELSE [live EXCEPT ![part] = restore[r].moved[part]]
  /\ restore' = IF part = "db" THEN [restore EXCEPT ![r] = IdleRestore]
                ELSE [restore EXCEPT ![r].moved = [@ EXCEPT !["wal"] = Missing],
                                     ![r].at = "back_db"]
  /\ UNCHANGED <<artifact, backup, left, last, disturbed>>

\* The process dies, or a step of undoing or discarding raises: what is aside
\* stays there, even if that is nothing.
DieRestoring(r) ==
  LET aside == IF restore[r].at = "move_db" THEN left ELSE left \union {restore[r].moved} IN
  /\ restore[r].at # "idle"
  /\ Cardinality(aside) <= MaxLeft
  /\ left' = aside
  /\ restore' = [restore EXCEPT ![r] = IdleRestore]
  /\ UNCHANGED <<live, artifact, backup, last, disturbed>>

RestoreStep(r) ==
  \/ \E part \in Parts : MoveAside(r, part)
  \/ Install(r)
  \/ Settle(r)
  \/ Discard(r)
  \/ Raise(r)
  \/ RemoveInstalled(r)
  \/ \E part \in Parts : PutBack(r, part)
  \/ DieRestoring(r)

---------------------------------------------------------------------------
Aside == left \union {restore[r].moved : r \in Restores}
Restoring == {r \in Restores : restore[r].at # "idle"}

\* "preserving an existing DB on failure" (snapshot.py:90): unless another command
\* opened the database while its files were being exchanged, each of the files the
\* last command left is in place or aside at every step of a restore, whichever
\* step raises or dies; and when no restore runs and none has died, both are in
\* place.  It is about the undo of restore_snapshot (snapshot.py:134).
DatabaseKept ==
  ~disturbed =>
    /\ \A part \in Parts :
         \/ last[part] \in {live[part], Missing}
         \/ \E files \in Aside : files[part] = last[part]
    /\ (Restoring = {} /\ left = {}) => live = last
================================================================================
