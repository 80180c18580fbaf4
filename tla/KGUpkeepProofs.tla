---------------------------- MODULE KGUpkeepProofs ----------------------------
(***************************************************************************)
(* What is proved about KGUpkeep: its types, that the last database is     *)
(* kept through restores, and that wiki syncs respect who owns a page.     *)
(***************************************************************************)
EXTENDS KGUpkeep, TLAPS

---------------------------------------------------------------------------
(* Invariants *)

\* A sync has pages to write and to remove only after its check.
Prepared == \A p \in Syncs : sync[p].at # "apply" => sync[p].write = {} /\ sync[p].remove = {}

\* No sync may touch a page of the user.
Untouched ==
  \A e \in mine :
    /\ pages[e] = "user" /\ e \notin manifest
    /\ \A p \in Syncs : e \notin sync[p].old /\ (p \in Applying => e \notin sync[p].graph)

\* Of the pages kg wrote, those not in the manifest were just written, and those
\* that a sync leaves out of the manifest were removed.
Accounted ==
  ~tangled =>
    /\ \A p, q \in Applying : p = q
    /\ \A p \in Applying :
         /\ sync[p].old = manifest
         /\ \A e \in sync[p].old \ (sync[p].graph \union sync[p].remove) : pages[e] # "kg"
    /\ \A e \in PageNames : pages[e] = "kg" =>
         e \in manifest \/ \E p \in Applying : e \in sync[p].graph \ sync[p].write

WikiInv == WikiTypeOK /\ Prepared /\ Untouched /\ Accounted

\* The part of the last database is there, or a dead restore has it aside.
Kept(part, there) ==
  \/ last[part] = there
  \/ left # {} /\ (last[part] = Missing \/ \E files \in left : files[part] = last[part])

MovedInOrder ==
  \A r \in Restores :
    /\ restore[r].at \in {"idle", "move_db"} => restore[r].moved = NoFiles
    /\ restore[r].at \in {"move_wal", "back_db"} => restore[r].moved["wal"] = Missing

\* Where the two files of the last database are while r exchanges them.
Traced(r) ==
  /\ Kept("db", restore[r].moved["db"])
  /\ Kept("wal", IF restore[r].at \in {"install", "settle", "remove"}
                    \/ restore[r].moved["wal"] # Missing
                 THEN restore[r].moved["wal"] ELSE live["wal"])
  /\ restore[r].at \in {"move_wal", "install", "back_wal", "back_db"} => live["db"] = Missing
  /\ restore[r].at \in {"install", "settle", "remove"} => live["wal"] = Missing

SnapshotInv ==
  /\ SnapshotTypeOK
  /\ MovedInOrder
  /\ ~disturbed =>
       /\ \A r, q \in Exchanging : r = q
       /\ Exchanging = {} => \A part \in Parts : Kept(part, live[part])
       /\ \A r \in Exchanging : Traced(r)

---------------------------------------------------------------------------
(***************************************************************************)
(* The wiki.                                                               *)
(***************************************************************************)

LEMMA WikiInitially == ASSUME WikiInit PROVE WikiInv
<1>1. WikiTypeOK BY DEF WikiInit, WikiTypeOK, Authors, IdleSync
<1>2. Prepared /\ Untouched /\ Accounted
  BY DEF WikiInit, Prepared, Untouched, Accounted, Applying, IdleSync
<1> QED BY <1>1, <1>2 DEF WikiInv

\* A sync that starts or stops holds nothing that belongs to a user.
LEMMA ReadKeeps ==
  ASSUME WikiInv, NEW p \in Syncs, NEW graph \in SUBSET PageNames, ReadGraph(p, graph)
  PROVE  WikiInv'
<1>1. /\ \A q \in Syncs : q # p => sync'[q] = sync[q]
      /\ sync'[p] = [IdleSync EXCEPT !.at = "check", !.old = manifest, !.graph = graph]
      /\ sync[p].at = "idle"
      /\ UNCHANGED <<pages, manifest, mine, tangled>>
  BY DEF ReadGraph, WikiInv, WikiTypeOK
<1>2. /\ sync'[p].at = "check" /\ sync'[p].old = manifest /\ sync'[p].graph = graph
      /\ sync'[p].write = {} /\ sync'[p].remove = {}
  BY <1>1 DEF IdleSync
<1>3. WikiTypeOK' BY <1>1, <1>2 DEF WikiInv, WikiTypeOK, ReadGraph, IdleSync
<1>4. Applying' = Applying BY <1>1, <1>2 DEF Applying
<1>5. Prepared' BY <1>1, <1>2 DEF WikiInv, Prepared
<1>6. Untouched' BY <1>1, <1>2, <1>4 DEF WikiInv, Untouched, Applying
<1>7. Accounted' BY <1>1, <1>2, <1>4 DEF WikiInv, Accounted, Applying
<1> QED BY <1>3, <1>5, <1>6, <1>7 DEF WikiInv

LEMMA EndKeeps ==
  ASSUME WikiInv, NEW p \in Syncs, sync' = [sync EXCEPT ![p] = IdleSync],
         Refuse(p) \/ Record(p) \/ StopSync(p)
  PROVE  WikiInv'
<1>1. /\ \A q \in Syncs : q # p => sync'[q] = sync[q]
      /\ sync'[p] = IdleSync
      /\ UNCHANGED <<pages, mine>>
  BY DEF WikiInv, WikiTypeOK, Refuse, Record, StopSync
<1>2. /\ sync'[p].at = "idle" /\ sync'[p].old = {} /\ sync'[p].graph = {}
      /\ sync'[p].write = {} /\ sync'[p].remove = {}
  BY <1>1 DEF IdleSync
<1>3. manifest' = manifest \/ (p \in Applying /\ manifest' = sync[p].graph)
  BY DEF Refuse, Record, StopSync, Applying
<1>4. WikiTypeOK'
  BY <1>1, <1>2, <1>3 DEF WikiInv, WikiTypeOK, Refuse, Record, StopSync, IdleSync
<1>5. Applying' = Applying \ {p} BY <1>1, <1>2 DEF Applying
<1>6. Prepared' BY <1>1, <1>2 DEF WikiInv, Prepared
<1>7. Untouched' BY <1>1, <1>2, <1>3, <1>5 DEF WikiInv, Untouched, Applying
<1>8. CASE Refuse(p)
  <2>1. Applying' = Applying /\ UNCHANGED <<manifest, tangled>>
    BY <1>5, <1>8 DEF Refuse, Applying
  <2>2. Accounted' BY <1>1, <2>1, <1>8 DEF WikiInv, Accounted, Applying, Refuse
  <2> QED BY <1>4, <1>6, <1>7, <2>2 DEF WikiInv
<1>9. CASE Record(p)
  <2>1. p \in Applying /\ manifest' = sync[p].graph /\ tangled' = tangled
        /\ sync[p].write = {} /\ sync[p].remove = {}
    BY <1>9 DEF Record, Applying
  <2>2. Accounted' BY <1>1, <1>5, <2>1 DEF WikiInv, Accounted, Applying, WikiTypeOK
  <2> QED BY <1>4, <1>6, <1>7, <2>2 DEF WikiInv
<1>10. CASE StopSync(p)
  <2>1. CASE p \in Applying
    <3>1. manifest' = manifest
          /\ (~tangled' => ~tangled /\ sync[p].graph \subseteq sync[p].old \union sync[p].write)
      BY <1>10, <2>1 DEF StopSync, Applying, WikiInv, WikiTypeOK
    <3>2. Accounted' BY <1>1, <1>5, <2>1, <3>1 DEF WikiInv, Accounted, Applying
    <3> QED BY <1>4, <1>6, <1>7, <3>2 DEF WikiInv
  <2>2. CASE p \notin Applying
    <3>1. Applying' = Applying /\ manifest' = manifest /\ tangled' = tangled
      BY <1>5, <1>10, <2>2 DEF StopSync, Applying, WikiInv, WikiTypeOK
    <3>2. Accounted' BY <1>1, <2>2, <3>1 DEF WikiInv, Accounted, Applying
    <3> QED BY <1>4, <1>6, <1>7, <3>2 DEF WikiInv
  <2> QED BY <2>1, <2>2
<1> QED BY <1>8, <1>9, <1>10

\* The check keeps a sync from pages of users, and its old manifest from being
\* out of date unnoticed.
LEMMA AcceptKeeps ==
  ASSUME WikiInv, NEW p \in Syncs, Accept(p)
  PROVE  WikiInv'
<1>1. /\ \A q \in Syncs : q # p => sync'[q] = sync[q]
      /\ sync'[p] = [sync[p] EXCEPT !.at = "apply", !.write = sync[p].graph,
                                    !.remove = sync[p].old \ sync[p].graph]
      /\ sync[p].at = "check" /\ Conflicts(p) = {}
      /\ UNCHANGED <<pages, manifest, mine>>
  BY DEF Accept, WikiInv, WikiTypeOK
<1>2. /\ sync'[p].at = "apply" /\ sync'[p].old = sync[p].old /\ sync'[p].graph = sync[p].graph
      /\ sync'[p].write = sync[p].graph /\ sync'[p].remove = sync[p].old \ sync[p].graph
  BY <1>1 DEF WikiInv, WikiTypeOK
<1>3. WikiTypeOK'
  <2>1. WikiTypeOK BY DEF WikiInv
  <2>2. tangled' \in BOOLEAN BY <2>1 DEF Accept, WikiTypeOK
  <2>3. \A q \in Syncs : sync'[q].write \subseteq sync'[q].graph
                         /\ sync'[q].remove \subseteq sync'[q].old \ sync'[q].graph
    <3> TAKE q \in Syncs
    <3>1. CASE q = p BY <1>2, <3>1
    <3>2. CASE q # p BY <1>1, <2>1, <3>2 DEF WikiTypeOK
    <3> QED BY <3>1, <3>2
  <2>4. sync' \in [Syncs -> [at : {"idle", "check", "apply"}, old : SUBSET PageNames,
          graph : SUBSET PageNames, write : SUBSET PageNames, remove : SUBSET PageNames]]
    <3> DEFINE Entry == [at : {"idle", "check", "apply"}, old : SUBSET PageNames,
          graph : SUBSET PageNames, write : SUBSET PageNames, remove : SUBSET PageNames]
               accepted == [sync[p] EXCEPT !.at = "apply", !.write = sync[p].graph,
                                           !.remove = sync[p].old \ sync[p].graph]
    <3>1. sync \in [Syncs -> Entry] BY <2>1 DEF WikiTypeOK
    <3>2. accepted \in Entry BY <3>1
    <3>3. \A q \in Syncs : sync'[q] = IF q = p THEN accepted ELSE sync[q] BY <1>1
    <3>4. sync' = [q \in Syncs |-> sync'[q]] BY <3>1 DEF Accept
    <3> HIDE DEF accepted, Entry
    <3>5. sync' \in [Syncs -> Entry] BY <3>1, <3>2, <3>3, <3>4
    <3> QED BY <3>5 DEF Entry
  <2> QED BY <1>1, <2>1, <2>2, <2>3, <2>4 DEF WikiTypeOK
<1>4. Applying' = Applying \union {p} /\ p \notin Applying BY <1>1, <1>2 DEF Applying
<1>5. Prepared' BY <1>1, <1>2 DEF WikiInv, Prepared
<1>6. Untouched'
  <2>1. \A e \in mine : e \notin sync[p].graph
    BY <1>1 DEF WikiInv, Untouched, Conflicts
  <2> QED BY <1>1, <1>2, <1>4, <2>1 DEF WikiInv, Untouched, Applying
<1>7. Accounted'
  <2>1. ~tangled' => ~tangled /\ Applying = {} /\ sync[p].old = manifest
    BY DEF Accept, WikiInv, WikiTypeOK
  <2> QED BY <1>1, <1>2, <1>4, <2>1 DEF WikiInv, Accounted, Applying
<1> QED BY <1>3, <1>5, <1>6, <1>7 DEF WikiInv

LEMMA WriteKeeps ==
  ASSUME WikiInv, NEW p \in Syncs, NEW e \in PageNames, WritePage(p, e)
  PROVE  WikiInv'
<1>1. /\ \A q \in Syncs : q # p => sync'[q] = sync[q]
      /\ sync'[p] = [sync[p] EXCEPT !.write = @ \ {e}]
      /\ e \in sync[p].write /\ e \in sync[p].graph /\ p \in Applying
      /\ pages' = [pages EXCEPT ![e] = "kg"]
      /\ UNCHANGED <<manifest, mine, tangled>>
  BY DEF WritePage, WikiInv, WikiTypeOK, Prepared, Applying
<1>2. /\ sync'[p].at = sync[p].at /\ sync'[p].old = sync[p].old /\ sync'[p].graph = sync[p].graph
      /\ sync'[p].write = sync[p].write \ {e} /\ sync'[p].remove = sync[p].remove
  BY <1>1 DEF WikiInv, WikiTypeOK
<1>3. WikiTypeOK'
  <2>1. pages' \in [PageNames -> Authors] BY <1>1 DEF WikiInv, WikiTypeOK, Authors
  <2> QED BY <1>1, <1>2, <2>1 DEF WikiInv, WikiTypeOK, WritePage
<1>4. Applying' = Applying BY <1>1, <1>2 DEF Applying
<1>5. Prepared' BY <1>1, <1>2 DEF WikiInv, Prepared, Applying
<1>6. Untouched'
  <2>1. e \notin mine BY <1>1 DEF WikiInv, Untouched
  <2> QED BY <1>1, <1>2, <1>4, <2>1 DEF WikiInv, WikiTypeOK, Untouched, Applying
<1>7. Accounted'
  <2>1. \A f \in PageNames : f # e => pages'[f] = pages[f] BY <1>1 DEF WikiInv, WikiTypeOK
  <2>2. ~tangled => \A q \in Applying : q = p BY <1>1 DEF WikiInv, Accounted
  <2> QED BY <1>1, <1>2, <1>4, <2>1, <2>2 DEF WikiInv, Accounted, WikiTypeOK, Applying
<1> QED BY <1>3, <1>5, <1>6, <1>7 DEF WikiInv

LEMMA RemoveKeeps ==
  ASSUME WikiInv, NEW p \in Syncs, NEW e \in PageNames, RemoveStale(p, e)
  PROVE  WikiInv'
<1>1. /\ \A q \in Syncs : q # p => sync'[q] = sync[q]
      /\ sync'[p] = [sync[p] EXCEPT !.remove = @ \ {e}]
      /\ e \in sync[p].remove /\ e \in sync[p].old /\ p \in Applying
      /\ pages' = [pages EXCEPT ![e] = "none"]
      /\ UNCHANGED <<manifest, mine, tangled>>
  BY DEF RemoveStale, WikiInv, WikiTypeOK, Prepared, Applying
<1>2. /\ sync'[p].at = sync[p].at /\ sync'[p].old = sync[p].old /\ sync'[p].graph = sync[p].graph
      /\ sync'[p].write = sync[p].write /\ sync'[p].remove = sync[p].remove \ {e}
  BY <1>1 DEF WikiInv, WikiTypeOK
<1>3. WikiTypeOK'
  <2>1. pages' \in [PageNames -> Authors] BY <1>1 DEF WikiInv, WikiTypeOK, Authors
  <2> QED BY <1>1, <1>2, <2>1 DEF WikiInv, WikiTypeOK, RemoveStale
<1>4. Applying' = Applying BY <1>1, <1>2 DEF Applying
<1>5. Prepared' BY <1>1, <1>2 DEF WikiInv, Prepared, Applying
<1>6. Untouched'
  <2>1. e \notin mine BY <1>1 DEF WikiInv, Untouched
  <2> QED BY <1>1, <1>2, <1>4, <2>1 DEF WikiInv, WikiTypeOK, Untouched, Applying
<1>7. Accounted'
  <2>1. \A f \in PageNames : f # e => pages'[f] = pages[f] BY <1>1 DEF WikiInv, WikiTypeOK
  <2>2. pages'[e] = "none" BY <1>1 DEF WikiInv, WikiTypeOK
  <2> QED BY <1>1, <1>2, <1>4, <2>1, <2>2 DEF WikiInv, Accounted, WikiTypeOK, Applying
<1> QED BY <1>3, <1>5, <1>6, <1>7 DEF WikiInv

LEMMA UserKeeps ==
  ASSUME WikiInv, UserStep
  PROVE  WikiInv'
<1>1. PICK e \in PageNames : UserWrites(e) \/ UserDeletes(e) BY DEF UserStep
<1>2. UNCHANGED <<manifest, sync, tangled>> /\ Applying' = Applying
  BY <1>1 DEF UserWrites, UserDeletes, Applying
<1>3. /\ \A f \in PageNames : f # e => pages'[f] = pages[f]
      /\ pages'[e] \in {"user", "none"}
      /\ pages' \in [PageNames -> Authors]
  BY <1>1 DEF UserWrites, UserDeletes, WikiInv, WikiTypeOK, Authors
<1>4. WikiTypeOK' BY <1>1, <1>2, <1>3 DEF WikiInv, WikiTypeOK, UserWrites, UserDeletes
<1>5. Prepared' BY <1>2 DEF WikiInv, Prepared
<1>6. Accounted' BY <1>2, <1>3 DEF WikiInv, WikiTypeOK, Accounted, Applying
<1>7. Untouched'
  <2>1. CASE UserWrites(e)
    <3>1. pages'[e] = "user" BY <2>1 DEF UserWrites, WikiInv, WikiTypeOK
    <3>2. \A f \in mine' : f \in mine \/ (f = e /\ ~Claimed(e)) BY <2>1 DEF UserWrites
    <3> QED BY <1>2, <1>3, <3>1, <3>2 DEF WikiInv, WikiTypeOK, Untouched, Claimed, Applying
  <2>2. CASE UserDeletes(e)
    BY <1>2, <1>3, <2>2 DEF UserDeletes, WikiInv, WikiTypeOK, Untouched, Applying
  <2> QED BY <1>1, <2>1, <2>2
<1> QED BY <1>4, <1>5, <1>6, <1>7 DEF WikiInv

LEMMA SyncKeeps ==
  ASSUME WikiInv, NEW p \in Syncs, SyncStep(p)
  PROVE  WikiInv'
<1>1. CASE Refuse(p) \/ Record(p) \/ StopSync(p)
  <2>1. sync' = [sync EXCEPT ![p] = IdleSync] BY <1>1 DEF Refuse, Record, StopSync
  <2> QED BY <1>1, <2>1, EndKeeps
<1>2. CASE Accept(p) BY <1>2, AcceptKeeps
<1>3. CASE \E e \in PageNames : WritePage(p, e) \/ RemoveStale(p, e)
  BY <1>3, WriteKeeps, RemoveKeeps
<1> QED BY <1>1, <1>2, <1>3 DEF SyncStep

---------------------------------------------------------------------------
(***************************************************************************)
(* The database.                                                           *)
(***************************************************************************)

LEMMA SnapshotInitially == ASSUME SnapshotInit PROVE SnapshotInv
<1>1. SnapshotTypeOK
  BY DEF SnapshotInit, SnapshotTypeOK, IdleRestore, NoFiles, Files, Copies, RestoreSteps
<1>2. MovedInOrder BY DEF SnapshotInit, MovedInOrder, IdleRestore
<1>3. Exchanging = {} BY DEF SnapshotInit, Exchanging, IdleRestore
<1>4. \A part \in Parts : Kept(part, live[part]) BY DEF SnapshotInit, Kept
<1> QED BY <1>1, <1>2, <1>3, <1>4 DEF SnapshotInv

\* Files are known by their two parts.
LEMMA TwoFiles ==
  /\ \A x, y \in Copies : [part \in Parts |-> IF part = "db" THEN x ELSE y] \in Files
  /\ NoFiles \in Files /\ NoFiles["db"] = Missing /\ NoFiles["wal"] = Missing
  /\ \A x \in Copies : /\ Closed(x) \in Files
                      /\ Closed(x)["db"] = x /\ Closed(x)["wal"] = Missing
  /\ \A files \in Files : /\ files["db"] \in Copies /\ files["wal"] \in Copies
                         /\ (files = NoFiles <=> files["db"] = Missing /\ files["wal"] = Missing)
BY DEF Parts, Files, NoFiles, Closed, Copies

LEMMA FileReplaced ==
  \A files \in Files, x \in Copies :
    /\ [files EXCEPT !["db"] = x] \in Files
    /\ [files EXCEPT !["db"] = x]["db"] = x /\ [files EXCEPT !["db"] = x]["wal"] = files["wal"]
    /\ [files EXCEPT !["wal"] = x] \in Files
    /\ [files EXCEPT !["wal"] = x]["wal"] = x /\ [files EXCEPT !["wal"] = x]["db"] = files["db"]
BY DEF Parts, Files

\* Where the restores stand decides; what a command leaves is kept.
LEMMA CommitKeeps ==
  ASSUME SnapshotInv, NEW graph \in Graphs, NEW checkpointed \in BOOLEAN,
         Commit(graph, checkpointed)
  PROVE  SnapshotInv'
<1>1. live' = last' /\ (~disturbed' => Exchanging = {}) /\ UNCHANGED <<artifact, restore, backup, left>>
      /\ disturbed' \in BOOLEAN
  BY DEF Commit
<1>2. live' \in Files
  <2>1. graph \in Copies /\ {} \in Copies /\ live \in Files BY DEF Copies, Graphs, SnapshotInv, SnapshotTypeOK
  <2>2. Opened(live) \in Files BY <2>1, TwoFiles DEF Opened
  <2>3. [Opened(live) EXCEPT !["wal"] = graph] \in Files BY <2>1, <2>2, FileReplaced DEF Parts
  <2> QED BY <2>1, <2>3, TwoFiles DEF Commit
<1>3. SnapshotTypeOK' BY <1>1, <1>2 DEF SnapshotInv, SnapshotTypeOK
<1>4. MovedInOrder' BY <1>1 DEF SnapshotInv, MovedInOrder
<1>5. Exchanging' = Exchanging BY <1>1 DEF Exchanging
<1>6. \A part \in Parts : Kept(part, live[part])' BY <1>1 DEF Kept
<1> QED BY <1>1, <1>3, <1>4, <1>5, <1>6 DEF SnapshotInv

LEMMA OpenKeeps ==
  ASSUME SnapshotInv, OpenDatabase
  PROVE  SnapshotInv'
<1>1. UNCHANGED <<artifact, restore, backup, left>> /\ live' = Opened(live) BY DEF OpenDatabase
<1>2. live \in Files /\ {} \in Copies /\ last \in Files
  BY DEF Copies, Graphs, SnapshotInv, SnapshotTypeOK
<1>3. SnapshotTypeOK'
  <2>1. live' \in Files BY <1>1, <1>2, TwoFiles DEF Opened
  <2> QED BY <1>1, <2>1 DEF OpenDatabase, SnapshotInv, SnapshotTypeOK
<1>4. MovedInOrder' /\ Exchanging' = Exchanging
  BY <1>1 DEF SnapshotInv, MovedInOrder, Exchanging
<1>5. CASE live["db"] # Missing
  <2>1. UNCHANGED <<live, last, disturbed>>
    BY <1>1, <1>2, <1>5, TwoFiles DEF Opened, OpenDatabase, SnapshotInv, SnapshotTypeOK
  <2>2. \A part, there : Kept(part, there)' <=> Kept(part, there) BY <1>1, <2>1 DEF Kept
  <2>3. \A r \in Exchanging : Traced(r)' <=> Traced(r) BY <1>1, <2>1, <2>2 DEF Traced
  <2> QED BY <1>3, <1>4, <2>1, <2>2, <2>3 DEF SnapshotInv
<1>6. CASE live["db"] = Missing
  <2> SUFFICES ASSUME ~disturbed'
               PROVE  Exchanging = {} /\ \A part \in Parts : Kept(part, live[part])'
    BY <1>3, <1>4 DEF SnapshotInv
  <2>1. live' = Closed({}) /\ live'["db"] = {} /\ live'["wal"] = Missing
    BY <1>1, <1>2, <1>6, TwoFiles DEF Opened
  <2>2. {} # Missing BY SnapshotAssumption
  <2>3. live' # live BY <1>6, <2>1, <2>2
  <2>4. ~disturbed /\ Exchanging = {} /\ live = NoFiles
    BY <2>3 DEF OpenDatabase, SnapshotInv, SnapshotTypeOK
  <2>5. \A part \in Parts : Kept(part, Missing)
    BY <2>4, TwoFiles DEF SnapshotInv, Parts
  <2>6. CASE last = NoFiles
    <3>1. last' = live' BY <2>4, <2>6 DEF OpenDatabase
    <3> QED BY <2>4, <3>1 DEF Kept
  <2>7. CASE last # NoFiles
    <3>1. last' = last BY <2>7 DEF OpenDatabase
    <3>2. left # {} BY <1>2, <2>5, <2>7, TwoFiles DEF Kept, Parts
    <3> QED BY <1>1, <2>4, <2>5, <3>1, <3>2 DEF Kept
  <2> QED BY <2>6, <2>7
<1> QED BY <1>5, <1>6

LEMMA BackupKeeps ==
  ASSUME SnapshotInv, NEW s \in Backups,
         CopyDatabase(s) \/ PublishArtifact(s) \/ AbandonSnapshot(s)
  PROVE  SnapshotInv'
<1>1. UNCHANGED <<live, restore, left, last, disturbed>>
  BY DEF CopyDatabase, PublishArtifact, AbandonSnapshot
<1>2. SnapshotTypeOK'
  BY DEF CopyDatabase, PublishArtifact, AbandonSnapshot, SnapshotInv, SnapshotTypeOK, Current, Files, Parts, Copies
<1>3. MovedInOrder' /\ Exchanging' = Exchanging
  BY <1>1 DEF SnapshotInv, MovedInOrder, Exchanging
<1>4. \A part, there : Kept(part, there)' <=> Kept(part, there) BY <1>1 DEF Kept
<1>5. \A r \in Exchanging : Traced(r)' <=> Traced(r) BY <1>1, <1>4 DEF Traced
<1> QED BY <1>1, <1>2, <1>3, <1>4, <1>5 DEF SnapshotInv

---------------------------------------------------------------------------
(* The steps of a restore *)

\* A step of r leaves the other restores where they are.
LEMMA OthersStay ==
  ASSUME SnapshotInv, NEW r \in Restores,
         \A q \in Restores : q # r => restore'[q] = restore[q]
  PROVE  /\ Exchanging \ {r} = Exchanging' \ {r}
         /\ MovedInOrder' <=>
              /\ restore'[r].at \in {"idle", "move_db"} => restore'[r].moved = NoFiles
              /\ restore'[r].at \in {"move_wal", "back_db"} => restore'[r].moved["wal"] = Missing
<1>1. Exchanging \ {r} = Exchanging' \ {r} BY DEF Exchanging
<1>2. MovedInOrder BY DEF SnapshotInv
<1> QED BY <1>1, <1>2 DEF MovedInOrder

\* As long as nothing is disturbed, r alone decides where the files are.
LEMMA AloneSuffices ==
  ASSUME SnapshotInv, NEW r \in Restores, SnapshotTypeOK', MovedInOrder',
         \A q \in Restores : q # r => restore'[q] = restore[q],
         r \in Exchanging,
         disturbed' = disturbed,
         ~disturbed => IF r \in Exchanging' THEN Traced(r)'
                       ELSE \A part \in Parts : Kept(part, live[part])'
  PROVE  SnapshotInv'
<1> SUFFICES ASSUME ~disturbed
             PROVE  /\ \A q, t \in Exchanging' : q = t
                    /\ Exchanging' = {} => \A part \in Parts : Kept(part, live[part])'
                    /\ \A q \in Exchanging' : Traced(q)'
  BY DEF SnapshotInv
<1>1. Exchanging = {r} BY DEF SnapshotInv
<1>2. Exchanging' \subseteq {r} BY <1>1, OthersStay
<1> QED BY <1>2

LEMMA UnpackKeeps ==
  ASSUME SnapshotInv, NEW r \in Restores, NEW force \in BOOLEAN, Unpack(r, force)
  PROVE  SnapshotInv'
<1>1. /\ \A q \in Restores : q # r => restore'[q] = restore[q]
      /\ restore'[r].at = "move_db" /\ restore'[r].moved = restore[r].moved
      /\ restore' \in [Restores -> [at : RestoreSteps, graph : Copies, moved : Files]]
      /\ restore[r].at = "idle"
      /\ UNCHANGED <<live, artifact, backup, left, last, disturbed>>
  BY DEF Unpack, SnapshotInv, SnapshotTypeOK, RestoreSteps
<1>2. SnapshotTypeOK' BY <1>1 DEF SnapshotInv, SnapshotTypeOK
<1>3. MovedInOrder' BY <1>1, OthersStay DEF SnapshotInv, MovedInOrder
<1>4. Exchanging' = Exchanging BY <1>1 DEF Exchanging
<1>5. \A part, there : Kept(part, there)' <=> Kept(part, there) BY <1>1 DEF Kept
<1>6. \A q \in Exchanging : Traced(q)' <=> Traced(q)
  BY <1>1, <1>5 DEF Traced, Exchanging
<1> QED BY <1>1, <1>2, <1>3, <1>4, <1>5, <1>6 DEF SnapshotInv

LEMMA MoveDbKeeps ==
  ASSUME SnapshotInv, NEW r \in Restores, MoveAside(r, "db")
  PROVE  SnapshotInv'
<1>1. live \in Files /\ live["db"] \in Copies /\ Missing \in Copies /\ restore[r].moved = NoFiles
      /\ restore[r].at = "move_db"
  BY TwoFiles DEF SnapshotInv, SnapshotTypeOK, MovedInOrder, MoveAside, Copies
<1>2. /\ live' \in Files /\ live'["db"] = Missing /\ live'["wal"] = live["wal"]
      /\ [restore[r].moved EXCEPT !["db"] = live["db"]] \in Files
      /\ [restore[r].moved EXCEPT !["db"] = live["db"]]["db"] = live["db"]
      /\ [restore[r].moved EXCEPT !["db"] = live["db"]]["wal"] = Missing
  <2>1. live' = [live EXCEPT !["db"] = Missing] BY DEF MoveAside
  <2>2. restore[r].moved \in Files /\ restore[r].moved["wal"] = Missing BY <1>1, TwoFiles
  <2> QED BY <1>1, <2>1, <2>2, FileReplaced
<1>3. /\ \A q \in Restores : q # r => restore'[q] = restore[q]
      /\ restore'[r].at = "move_wal"
      /\ restore'[r].moved = [restore[r].moved EXCEPT !["db"] = live["db"]]
      /\ restore' \in [Restores -> [at : RestoreSteps, graph : Copies, moved : Files]]
      /\ UNCHANGED <<artifact, backup, left, last>>
  BY <1>2 DEF MoveAside, SnapshotInv, SnapshotTypeOK, RestoreSteps
<1>4. disturbed' \in BOOLEAN /\ (~disturbed' => ~disturbed /\ Exchanging \ {r} = {})
  BY DEF MoveAside, SnapshotInv, SnapshotTypeOK
<1>5. SnapshotTypeOK' BY <1>2, <1>3, <1>4 DEF SnapshotInv, SnapshotTypeOK
<1>6. MovedInOrder' BY <1>2, <1>3, OthersStay
<1>7. r \notin Exchanging BY <1>1 DEF Exchanging
<1>8. Exchanging' \ {r} = Exchanging /\ r \in Exchanging' BY <1>3, <1>7, OthersStay DEF Exchanging
<1> SUFFICES ASSUME ~disturbed' PROVE Traced(r)'
  BY <1>4, <1>5, <1>6, <1>7, <1>8 DEF SnapshotInv
<1>9. Kept("db", live["db"]) /\ Kept("wal", live["wal"])
  BY <1>4, <1>7 DEF SnapshotInv, Parts
<1> QED BY <1>2, <1>3, <1>9 DEF Traced, Kept

LEMMA MoveWalKeeps ==
  ASSUME SnapshotInv, NEW r \in Restores, MoveAside(r, "wal")
  PROVE  SnapshotInv'
<1>1. live \in Files /\ live["wal"] \in Copies /\ Missing \in Copies /\ restore[r].moved \in Files
      /\ restore[r].at = "move_wal" /\ restore[r].moved["wal"] = Missing
  BY TwoFiles DEF SnapshotInv, SnapshotTypeOK, MovedInOrder, MoveAside, Copies
<1>2. /\ live' \in Files /\ live'["wal"] = Missing /\ live'["db"] = live["db"]
      /\ [restore[r].moved EXCEPT !["wal"] = live["wal"]] \in Files
      /\ [restore[r].moved EXCEPT !["wal"] = live["wal"]]["wal"] = live["wal"]
      /\ [restore[r].moved EXCEPT !["wal"] = live["wal"]]["db"] = restore[r].moved["db"]
  BY <1>1, FileReplaced DEF MoveAside, Parts
<1>3. /\ \A q \in Restores : q # r => restore'[q] = restore[q]
      /\ restore'[r].at = "install"
      /\ restore'[r].moved = [restore[r].moved EXCEPT !["wal"] = live["wal"]]
      /\ restore' \in [Restores -> [at : RestoreSteps, graph : Copies, moved : Files]]
      /\ UNCHANGED <<artifact, backup, left, last>>
  BY <1>2 DEF MoveAside, SnapshotInv, SnapshotTypeOK, RestoreSteps
<1>4. disturbed' \in BOOLEAN /\ (~disturbed' => ~disturbed /\ Exchanging \ {r} = {})
  BY DEF MoveAside, SnapshotInv, SnapshotTypeOK
<1>5. SnapshotTypeOK' BY <1>2, <1>3, <1>4 DEF SnapshotInv, SnapshotTypeOK
<1>6. MovedInOrder' BY <1>3, OthersStay
<1>7. r \in Exchanging /\ r \in Exchanging' /\ Exchanging' \ {r} = Exchanging \ {r}
  BY <1>1, <1>3, OthersStay DEF Exchanging
<1> SUFFICES ASSUME ~disturbed' PROVE Traced(r)'
  BY <1>4, <1>5, <1>6, <1>7 DEF SnapshotInv
<1>8. Traced(r) BY <1>4, <1>7 DEF SnapshotInv
<1> QED BY <1>1, <1>2, <1>3, <1>8 DEF Traced, Kept

\* What only moves on, or writes the database file.
LEMMA ExchangeKeeps ==
  ASSUME SnapshotInv, NEW r \in Restores, Install(r) \/ Raise(r) \/ RemoveInstalled(r)
  PROVE  SnapshotInv'
<1>1. live \in Files /\ Missing \in Copies /\ restore[r].graph \in Copies /\ r \in Exchanging
      /\ restore[r].at \in {"move_wal", "install", "settle", "remove"}
  BY DEF SnapshotInv, SnapshotTypeOK, Copies, Install, Raise, RemoveInstalled, Exchanging
<1>2. /\ \A q \in Restores : q # r => restore'[q] = restore[q]
      /\ restore'[r].at \in {"settle", "remove", "back_wal"}
      /\ restore'[r].moved = restore[r].moved
      /\ restore' \in [Restores -> [at : RestoreSteps, graph : Copies, moved : Files]]
      /\ UNCHANGED <<artifact, backup, left, last, disturbed>>
  BY DEF Install, Raise, RemoveInstalled, Goto, SnapshotInv, SnapshotTypeOK, RestoreSteps
<1>3. live' \in Files /\ live'["wal"] = live["wal"]
  <2>1. CASE Install(r)
    <3>1. live' = [live EXCEPT !["db"] = restore[r].graph] BY <2>1 DEF Install
    <3> QED BY <1>1, <3>1, FileReplaced
  <2>2. CASE Raise(r) BY <1>1, <2>2 DEF Raise
  <2>3. CASE RemoveInstalled(r)
    <3>1. live' = [live EXCEPT !["db"] = Missing] BY <2>3 DEF RemoveInstalled
    <3> QED BY <1>1, <3>1, FileReplaced
  <2> QED BY <2>1, <2>2, <2>3
<1>4. SnapshotTypeOK' BY <1>2, <1>3 DEF SnapshotInv, SnapshotTypeOK
<1>5. MovedInOrder' BY <1>2, OthersStay
<1>6. r \in Exchanging' BY <1>2 DEF Exchanging
<1> SUFFICES ASSUME ~disturbed PROVE Traced(r)'
  BY <1>1, <1>2, <1>4, <1>5, <1>6, AloneSuffices
<1>7. Traced(r) BY <1>1 DEF SnapshotInv
<1>8. \A part, there : Kept(part, there)' <=> Kept(part, there) BY <1>2 DEF Kept
<1>9. restore[r].at = "move_wal" => restore[r].moved["wal"] = Missing
  BY DEF SnapshotInv, MovedInOrder
<1>10. CASE Install(r)
  <2>1. restore[r].at = "install" /\ restore'[r].at = "settle"
    BY <1>10, <1>2 DEF Install, Goto, SnapshotInv, SnapshotTypeOK
  <2> QED BY <1>2, <1>3, <1>7, <1>8, <2>1 DEF Traced
<1>11. CASE Raise(r)
  <2>1. live' = live /\ restore'[r].at = IF restore[r].at = "settle" THEN "remove" ELSE "back_wal"
    BY <1>11 DEF Raise, Goto, SnapshotInv, SnapshotTypeOK
  <2>2. restore[r].at \in {"move_wal", "install", "settle"} BY <1>11 DEF Raise
  <2>3. CASE restore[r].at = "settle" BY <1>2, <1>7, <1>8, <2>1, <2>3 DEF Traced
  <2>4. CASE restore[r].at = "move_wal" BY <1>2, <1>7, <1>8, <1>9, <2>1, <2>4 DEF Traced
  <2>5. CASE restore[r].at = "install" BY <1>2, <1>7, <1>8, <2>1, <2>5 DEF Traced
  <2> QED BY <2>2, <2>3, <2>4, <2>5
<1>12. CASE RemoveInstalled(r)
  <2>1. restore[r].at = "remove" /\ restore'[r].at = "back_wal"
    BY <1>12 DEF RemoveInstalled, Goto, SnapshotInv, SnapshotTypeOK
  <2>2. live'["db"] = Missing BY <1>1, <1>12, FileReplaced DEF RemoveInstalled, Parts
  <2> QED BY <1>2, <1>3, <1>7, <1>8, <2>1, <2>2 DEF Traced
<1> QED BY <1>10, <1>11, <1>12

LEMMA SettleKeeps ==
  ASSUME SnapshotInv, NEW r \in Restores, Settle(r)
  PROVE  SnapshotInv'
<1>1. /\ \A q \in Restores : q # r => restore'[q] = restore[q]
      /\ restore'[r].at = "discard" /\ restore[r].at = "settle"
      /\ restore' \in [Restores -> [at : RestoreSteps, graph : Copies, moved : Files]]
      /\ last' = live
      /\ UNCHANGED <<live, artifact, backup, left, disturbed>>
  BY DEF Settle, Goto, SnapshotInv, SnapshotTypeOK, RestoreSteps
<1>2. SnapshotTypeOK' BY <1>1 DEF SnapshotInv, SnapshotTypeOK
<1>3. MovedInOrder' BY <1>1, OthersStay
<1>4. r \in Exchanging /\ r \notin Exchanging' BY <1>1 DEF Exchanging
<1>5. \A part \in Parts : Kept(part, live[part])' BY <1>1 DEF Kept
<1> QED BY <1>1, <1>2, <1>3, <1>4, <1>5, AloneSuffices

LEMMA DiscardKeeps ==
  ASSUME SnapshotInv, NEW r \in Restores, Discard(r)
  PROVE  SnapshotInv'
<1>1. /\ \A q \in Restores : q # r => restore'[q] = restore[q]
      /\ restore'[r] = IdleRestore /\ restore'[r].at = "idle" /\ restore'[r].moved = NoFiles
      /\ restore' \in [Restores -> [at : RestoreSteps, graph : Copies, moved : Files]]
      /\ restore[r].at = "discard"
      /\ UNCHANGED <<live, artifact, backup, left, last, disturbed>>
  BY TwoFiles DEF Discard, IdleRestore, SnapshotInv, SnapshotTypeOK, RestoreSteps, Copies
<1>2. SnapshotTypeOK' BY <1>1 DEF SnapshotInv, SnapshotTypeOK
<1>3. MovedInOrder' BY <1>1, OthersStay
<1>4. Exchanging' = Exchanging /\ r \notin Exchanging BY <1>1 DEF Exchanging
<1>5. \A part, there : Kept(part, there)' <=> Kept(part, there) BY <1>1 DEF Kept
<1>6. \A q \in Exchanging : Traced(q)' <=> Traced(q)
  BY <1>1, <1>4, <1>5 DEF Traced, Exchanging
<1> QED BY <1>1, <1>2, <1>3, <1>4, <1>5, <1>6 DEF SnapshotInv

\* Undoing: what is put back is what the restore moved.
LEMMA PutBackKeeps ==
  ASSUME SnapshotInv, NEW r \in Restores, NEW part \in Parts, PutBack(r, part)
  PROVE  SnapshotInv'
<1>1. live \in Files /\ live["db"] \in Copies /\ live["wal"] \in Copies /\ Missing \in Copies
      /\ restore[r].moved \in Files
      /\ restore[r].moved["db"] \in Copies /\ restore[r].moved["wal"] \in Copies
  BY TwoFiles DEF SnapshotInv, SnapshotTypeOK, Copies
<1>2. UNCHANGED <<artifact, backup, left, last, disturbed>>
      /\ \A q \in Restores : q # r => restore'[q] = restore[q]
  BY DEF PutBack, SnapshotInv, SnapshotTypeOK
<1>3. \A p, there : Kept(p, there)' <=> Kept(p, there) BY <1>2 DEF Kept
<1>4. r \in Exchanging BY DEF PutBack, Exchanging
<1>5. CASE part = "wal"
  <2>1. restore[r].at = "back_wal"
        /\ live' = IF restore[r].moved["wal"] = Missing THEN live
                   ELSE [live EXCEPT !["wal"] = restore[r].moved["wal"]]
    BY <1>5 DEF PutBack
  <2>2. live' \in Files /\ live'["db"] = live["db"]
        /\ live'["wal"] = IF restore[r].moved["wal"] = Missing THEN live["wal"]
                          ELSE restore[r].moved["wal"]
    <3>1. CASE restore[r].moved["wal"] = Missing BY <1>1, <2>1, <3>1
    <3>2. CASE restore[r].moved["wal"] # Missing
      <4> DEFINE kept == restore[r].moved["wal"]
      <4>1. kept \in Copies /\ live \in Files /\ live' = [live EXCEPT !["wal"] = kept]
        BY <1>1, <2>1, <3>2
      <4> HIDE DEF kept
      <4>2. live' \in Files /\ live'["wal"] = kept /\ live'["db"] = live["db"]
        BY <4>1, FileReplaced
      <4> QED BY <3>2, <4>2 DEF kept
    <3> QED BY <3>1, <3>2
  <2>3. [restore[r].moved EXCEPT !["wal"] = Missing] \in Files
        /\ [restore[r].moved EXCEPT !["wal"] = Missing]["wal"] = Missing
        /\ [restore[r].moved EXCEPT !["wal"] = Missing]["db"] = restore[r].moved["db"]
    BY <1>1, FileReplaced
  <2>4. /\ restore'[r].at = "back_db"
        /\ restore'[r].moved = [restore[r].moved EXCEPT !["wal"] = Missing]
        /\ restore' \in [Restores -> [at : RestoreSteps, graph : Copies, moved : Files]]
    BY <1>5, <2>3 DEF PutBack, SnapshotInv, SnapshotTypeOK, RestoreSteps
  <2>5. SnapshotTypeOK' BY <1>2, <2>2, <2>4 DEF SnapshotInv, SnapshotTypeOK
  <2>6. MovedInOrder' BY <1>2, <2>3, <2>4, OthersStay
  <2>7. ~disturbed => Traced(r)'
    <3> SUFFICES ASSUME ~disturbed PROVE Traced(r)' OBVIOUS
    <3>1. Traced(r) BY <1>4 DEF SnapshotInv
    <3> QED BY <1>3, <2>1, <2>2, <2>3, <2>4, <3>1 DEF Traced
  <2>8. r \in Exchanging' BY <2>4 DEF Exchanging
  <2> QED BY <1>2, <1>4, <2>5, <2>6, <2>7, <2>8, AloneSuffices
<1>6. CASE part = "db"
  <2>1. restore[r].at = "back_db"
        /\ live' = IF restore[r].moved["db"] = Missing THEN live
                   ELSE [live EXCEPT !["db"] = restore[r].moved["db"]]
    BY <1>6 DEF PutBack
  <2>2. live' \in Files /\ live'["wal"] = live["wal"]
        /\ live'["db"] = IF restore[r].moved["db"] = Missing THEN live["db"]
                         ELSE restore[r].moved["db"]
    <3>1. CASE restore[r].moved["db"] = Missing BY <1>1, <2>1, <3>1
    <3>2. CASE restore[r].moved["db"] # Missing
      <4> DEFINE kept == restore[r].moved["db"]
      <4>1. kept \in Copies /\ live \in Files /\ live' = [live EXCEPT !["db"] = kept]
        BY <1>1, <2>1, <3>2
      <4> HIDE DEF kept
      <4>2. live' \in Files /\ live'["db"] = kept /\ live'["wal"] = live["wal"]
        BY <4>1, FileReplaced
      <4> QED BY <3>2, <4>2 DEF kept
    <3> QED BY <3>1, <3>2
  <2>3. /\ restore'[r].at = "idle" /\ restore'[r].moved = NoFiles
        /\ restore' \in [Restores -> [at : RestoreSteps, graph : Copies, moved : Files]]
    BY <1>1, <1>6, TwoFiles DEF PutBack, IdleRestore, SnapshotInv, SnapshotTypeOK, RestoreSteps
  <2>4. SnapshotTypeOK' BY <1>2, <2>2, <2>3 DEF SnapshotInv, SnapshotTypeOK
  <2>5. MovedInOrder' BY <1>2, <2>3, OthersStay
  <2>6. restore[r].moved["wal"] = Missing BY <2>1 DEF SnapshotInv, MovedInOrder
  <2>7. ~disturbed => \A p \in Parts : Kept(p, live[p])'
    <3> SUFFICES ASSUME ~disturbed PROVE Kept("db", live["db"])' /\ Kept("wal", live["wal"])'
      BY DEF Parts
    <3>1. Traced(r) BY <1>4 DEF SnapshotInv
    <3>2. Kept("db", restore[r].moved["db"]) /\ Kept("wal", live["wal"]) /\ live["db"] = Missing
      BY <2>1, <2>6, <3>1 DEF Traced
    <3>3. Kept("db", live'["db"]) /\ Kept("wal", live'["wal"]) BY <2>2, <3>2
    <3> QED BY <1>2, <3>3 DEF Kept
  <2>8. r \notin Exchanging' BY <2>3 DEF Exchanging
  <2> QED BY <1>2, <1>4, <2>4, <2>5, <2>7, <2>8, AloneSuffices
<1> QED BY <1>5, <1>6 DEF Parts

\* A dead restore leaves what it moved where it can be found.
LEMMA DieKeeps ==
  ASSUME SnapshotInv, NEW r \in Restores, DieRestoring(r)
  PROVE  SnapshotInv'
<1>1. /\ \A q \in Restores : q # r => restore'[q] = restore[q]
      /\ restore'[r].at = "idle" /\ restore'[r].moved = NoFiles
      /\ restore' \in [Restores -> [at : RestoreSteps, graph : Copies, moved : Files]]
      /\ restore[r].at # "idle"
      /\ left' = IF restore[r].at = "move_db" THEN left ELSE left \union {restore[r].moved}
      /\ UNCHANGED <<live, artifact, backup, last, disturbed>>
  BY TwoFiles DEF DieRestoring, IdleRestore, SnapshotInv, SnapshotTypeOK, RestoreSteps, Copies
<1>2. left' \subseteq Files BY <1>1 DEF SnapshotInv, SnapshotTypeOK
<1>3. SnapshotTypeOK' BY <1>1, <1>2 DEF SnapshotInv, SnapshotTypeOK
<1>4. MovedInOrder' BY <1>1, OthersStay
<1>5. \A part, there : Kept(part, there) => Kept(part, there)' BY <1>1 DEF Kept
<1>6. CASE r \in Exchanging
  <2>1. r \notin Exchanging' /\ left' = left \union {restore[r].moved}
    BY <1>1, <1>6 DEF Exchanging
  <2>2. ~disturbed => \A part \in Parts : Kept(part, live[part])'
    <3> SUFFICES ASSUME ~disturbed PROVE Kept("db", live["db"])' /\ Kept("wal", live["wal"])'
      BY DEF Parts
    <3>1. Traced(r) BY <1>6 DEF SnapshotInv
    <3>2. Kept("db", live["db"])' BY <1>1, <2>1, <3>1 DEF Traced, Kept
    <3>3. Kept("wal", live["wal"])' BY <1>1, <2>1, <3>1 DEF Traced, Kept
    <3> QED BY <3>2, <3>3
  <2> QED BY <1>1, <1>3, <1>4, <1>6, <2>1, <2>2, AloneSuffices
<1>7. CASE r \notin Exchanging
  <2>1. Exchanging' = Exchanging BY <1>1, <1>7 DEF Exchanging
  <2>2. \A q \in Exchanging : q # r /\ restore'[q] = restore[q] BY <1>1, <1>7 DEF Exchanging
  <2>3. ~disturbed => \A q \in Exchanging : Traced(q)'
    BY <1>1, <1>5, <2>2 DEF SnapshotInv, Traced
  <2>4. ~disturbed /\ Exchanging = {} => \A part \in Parts : Kept(part, live[part])'
    BY <1>1, <1>5 DEF SnapshotInv
  <2> QED BY <1>1, <1>3, <1>4, <2>1, <2>3, <2>4 DEF SnapshotInv
<1> QED BY <1>6, <1>7

LEMMA RestoreKeeps ==
  ASSUME SnapshotInv, NEW r \in Restores, RestoreStep(r)
  PROVE  SnapshotInv'
<1>1. CASE \E part \in Parts : MoveAside(r, part)
  BY <1>1, MoveDbKeeps, MoveWalKeeps DEF Parts
<1>2. CASE Install(r) \/ Raise(r) \/ RemoveInstalled(r) BY <1>2, ExchangeKeeps
<1>3. CASE Settle(r) \/ Discard(r) BY <1>3, SettleKeeps, DiscardKeeps
<1>4. CASE \E part \in Parts : PutBack(r, part) BY <1>4, PutBackKeeps
<1>5. CASE DieRestoring(r) BY <1>5, DieKeeps
<1> QED BY <1>1, <1>2, <1>3, <1>4, <1>5 DEF RestoreStep

---------------------------------------------------------------------------
(***************************************************************************)
(* Both together.                                                          *)
(***************************************************************************)

UpkeepInv == SnapshotInv /\ WikiInv /\ begun \in 0..MaxCommands

LEMMA WikiAlone == ASSUME WikiInv, UNCHANGED wikiVars PROVE WikiInv'
<1>1. UNCHANGED <<pages, manifest, sync, mine, tangled>> BY DEF wikiVars
<1> QED BY <1>1 DEF WikiInv, WikiTypeOK, Prepared, Untouched, Accounted, Applying

LEMMA SnapshotAlone == ASSUME SnapshotInv, UNCHANGED snapshotVars PROVE SnapshotInv'
<1>1. UNCHANGED <<live, artifact, restore, backup, left, last, disturbed>> BY DEF snapshotVars
<1>2. SnapshotTypeOK' BY <1>1 DEF SnapshotInv, SnapshotTypeOK
<1>3. MovedInOrder' /\ Exchanging' = Exchanging
  BY <1>1 DEF SnapshotInv, MovedInOrder, Exchanging
<1>4. \A part, there : Kept(part, there)' <=> Kept(part, there) BY <1>1 DEF Kept
<1>5. \A r \in Exchanging : Traced(r)' <=> Traced(r) BY <1>1, <1>4 DEF Traced
<1> QED BY <1>1, <1>2, <1>3, <1>4, <1>5 DEF SnapshotInv

LEMMA Stepwise == ASSUME UpkeepInv, [Next]_vars PROVE UpkeepInv'
<1>1. SnapshotInv /\ WikiInv /\ begun \in 0..MaxCommands BY DEF UpkeepInv
<1>2. begun' \in 0..MaxCommands
  <2>1. Begins \/ UNCHANGED begun
    BY DEF Next, vars, ChangeGraph, TakeSnapshot, EndSnapshot, BeginRestore, RunRestore,
           BeginSync, RunSync, EditPages
  <2> QED BY <1>1, <2>1, UpkeepAssumption DEF Begins
<1>3. CASE ChangeGraph
  BY <1>1, <1>2, <1>3, CommitKeeps, WikiAlone DEF ChangeGraph, UpkeepInv
<1>4. CASE \E s \in Backups : TakeSnapshot(s) \/ EndSnapshot(s)
  BY <1>1, <1>2, <1>4, BackupKeeps, WikiAlone DEF TakeSnapshot, EndSnapshot, UpkeepInv
<1>5. CASE \E r \in Restores : BeginRestore(r) \/ RunRestore(r)
  BY <1>1, <1>2, <1>5, UnpackKeeps, RestoreKeeps, WikiAlone DEF BeginRestore, RunRestore, UpkeepInv
<1>6. CASE \E p \in Syncs : BeginSync(p)
  <2>1. PICK p \in Syncs : OpenDatabase /\ ReadGraph(p, Current(Opened(live)))
    BY <1>6 DEF BeginSync
  <2>2. live \in Files /\ {} \in Copies BY <1>1 DEF SnapshotInv, SnapshotTypeOK, Copies, Graphs
  <2>3. Opened(live) \in Files /\ Opened(live)["db"] # Missing
    BY <2>2, TwoFiles, SnapshotAssumption DEF Opened
  <2>4. Current(Opened(live)) \in SUBSET PageNames
    BY <2>3, TwoFiles, UpkeepAssumption DEF Current, Copies, Graphs
  <2> QED BY <1>1, <1>2, <2>1, <2>4, OpenKeeps, ReadKeeps DEF UpkeepInv
<1>7. CASE \E p \in Syncs : RunSync(p)
  BY <1>1, <1>2, <1>7, SyncKeeps, SnapshotAlone DEF RunSync, UpkeepInv
<1>8. CASE EditPages
  BY <1>1, <1>2, <1>8, UserKeeps, SnapshotAlone DEF EditPages, UpkeepInv
<1>9. CASE UNCHANGED vars
  <2>1. UNCHANGED snapshotVars /\ UNCHANGED wikiVars BY <1>9 DEF vars, snapshotVars, wikiVars
  <2> QED BY <1>1, <1>2, <2>1, SnapshotAlone, WikiAlone DEF UpkeepInv
<1> QED BY <1>3, <1>4, <1>5, <1>6, <1>7, <1>8, <1>9 DEF Next

\* The invariant the theorems rest on.
THEOREM UpkeepInvariant == Spec => []UpkeepInv
<1>1. Init => UpkeepInv
  BY SnapshotInitially, WikiInitially, UpkeepAssumption DEF Init, UpkeepInv
<1>2. UpkeepInv /\ [Next]_vars => UpkeepInv' BY Stepwise
<1> QED BY <1>1, <1>2, PTL DEF Spec

\* For any entities, processes and bounds: files, copies, syncs and pages are of
\* their kinds, and what a sync will remove it does not write (wiki.py:173-175).
THEOREM TypeCorrect == Spec => []TypeOK
<1>1. UpkeepInv => TypeOK BY DEF UpkeepInv, SnapshotInv, WikiInv, TypeOK
<1> QED BY UpkeepInvariant, <1>1, PTL

\* Whichever step of a restore raises or dies, and however many restores follow,
\* the files as the last command left them are in place or aside, as long as nobody
\* opened the database between two renames (snapshot.py:126-146).
THEOREM DatabaseAlwaysKept == Spec => []DatabaseKept
<1>1. ASSUME UpkeepInv PROVE DatabaseKept
  <2> SUFFICES ASSUME ~disturbed
               PROVE  /\ \A part \in Parts :
                           \/ last[part] \in {live[part], Missing}
                           \/ \E files \in Aside : files[part] = last[part]
                      /\ (Restoring = {} /\ left = {}) => live = last
    BY DEF DatabaseKept
  <2>1. live \in Files /\ last \in Files BY <1>1 DEF UpkeepInv, SnapshotInv, SnapshotTypeOK
  <2>2. CASE Exchanging = {}
    <3>1. \A part \in Parts : Kept(part, live[part]) BY <1>1, <2>2 DEF UpkeepInv, SnapshotInv
    <3>2. left = {} => live = last BY <2>1, <3>1 DEF Kept, Files
    <3> QED BY <3>1, <3>2 DEF Kept, Aside
  <2>3. CASE Exchanging # {}
    <3>1. PICK r \in Exchanging : Traced(r) BY <1>1, <2>3 DEF UpkeepInv, SnapshotInv
    <3>2. r \in Restoring /\ restore[r].moved \in Aside
      BY <3>1 DEF Exchanging, Restoring, Aside
    <3>3. left \subseteq Aside BY DEF Aside
    <3>4. last["db"] = Missing \/ \E files \in Aside : files["db"] = last["db"]
      BY <3>1, <3>2, <3>3 DEF Traced, Kept
    <3>5. last["wal"] \in {live["wal"], Missing} \/ \E files \in Aside : files["wal"] = last["wal"]
      BY <3>1, <3>2, <3>3 DEF Traced, Kept
    <3> QED BY <3>2, <3>4, <3>5 DEF Parts
  <2> QED BY <2>2, <2>3
<1> QED BY UpkeepInvariant, <1>1, PTL

\* Whatever syncs die, overlap or are refused, and whatever users write meanwhile:
\* kg neither overwrites nor removes a page that was written where it had no claim,
\* and keeps account of its own (wiki.py:138-182).
THEOREM OwnershipAlwaysKept == Spec => []OwnershipKept
<1>1. ASSUME UpkeepInv PROVE OwnershipKept
  <2>1. \A e \in mine : pages[e] = "user" BY <1>1 DEF UpkeepInv, WikiInv, Untouched
  <2>2. (\A p \in Syncs : sync[p].at = "idle") => Applying = {} BY DEF Applying
  <2> QED BY <1>1, <2>1, <2>2 DEF UpkeepInv, WikiInv, Accounted, OwnershipKept
<1> QED BY UpkeepInvariant, <1>1, PTL
================================================================================
