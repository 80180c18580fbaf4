------------------------------- MODULE KGUpkeep -------------------------------
(***************************************************************************)
(* The upkeep commands together: snapshots, restores and wiki syncs over   *)
(* one database, beside commands that change the graph and users who edit  *)
(* pages.  A sync reads whatever database it finds, and creates an empty   *)
(* one where a restore has moved it aside.                                 *)
(***************************************************************************)
EXTENDS KGSnapshot, KGWiki

CONSTANT MaxCommands    \* bound on the commands started

ASSUMPTION UpkeepAssumption ==
  /\ MaxCommands \in Nat
  /\ PageNames = Entities    \* an entity stands for the name of its page

VARIABLE begun          \* the number of commands started so far

vars == <<live, artifact, restore, backup, left, last, disturbed,
          pages, manifest, sync, mine, tangled, begun>>

TypeOK == SnapshotTypeOK /\ WikiTypeOK /\ begun \in 0..MaxCommands

Init == SnapshotInit /\ WikiInit /\ begun = 0

Begins == begun < MaxCommands /\ begun' = begun + 1

ChangeGraph ==
  /\ Begins
  /\ \E graph \in Graphs, checkpointed \in BOOLEAN : Commit(graph, checkpointed)
  /\ UNCHANGED wikiVars

TakeSnapshot(s) ==
  /\ Begins
  /\ CopyDatabase(s)
  /\ UNCHANGED wikiVars

EndSnapshot(s) ==
  /\ PublishArtifact(s) \/ AbandonSnapshot(s)
  /\ UNCHANGED begun
  /\ UNCHANGED wikiVars

BeginRestore(r) ==
  /\ Begins
  /\ \E force \in BOOLEAN : Unpack(r, force)
  /\ UNCHANGED wikiVars

RunRestore(r) ==
  /\ RestoreStep(r)
  /\ UNCHANGED begun
  /\ UNCHANGED wikiVars

\* wiki_sync_cli: the adapter opens the database before the sync reads it.
BeginSync(p) ==
  /\ Begins
  /\ OpenDatabase
  /\ ReadGraph(p, Current(Opened(live)))

RunSync(p) ==
  /\ SyncStep(p)
  /\ UNCHANGED begun
  /\ UNCHANGED snapshotVars

EditPages ==
  /\ UserStep
  /\ UNCHANGED begun
  /\ UNCHANGED snapshotVars

Next ==
  \/ ChangeGraph
  \/ \E s \in Backups : TakeSnapshot(s) \/ EndSnapshot(s)
  \/ \E r \in Restores : BeginRestore(r) \/ RunRestore(r)
  \/ \E p \in Syncs : BeginSync(p) \/ RunSync(p)
  \/ EditPages

Spec == Init /\ [][Next]_vars
================================================================================
