-------------------------------- MODULE KGWiki --------------------------------
(***************************************************************************)
(* `kg wiki sync`: a page for every active entity, and a manifest of the   *)
(* pages that kg owns.                                                     *)
(*                                                                         *)
(* A sync reads the manifest and the graph, refuses if a page it would     *)
(* write exists and is not in the manifest, and then writes its pages one  *)
(* by one, removes those of entities that are gone, and replaces the       *)
(* manifest.  Users write and delete pages in the same directory at any    *)
(* moment, a sync may die or raise at any step, and two may overlap.       *)
(*                                                                         *)
(* A page is known by who wrote it last.  The name of the page of an       *)
(* entity ends in a digest of its id (_entity_filename), so that no two    *)
(* share one; the graph is given as the names of the pages it calls for.   *)
(* This is a component: KGUpkeep composes it with the database.            *)
(***************************************************************************)
CONSTANTS
  PageNames,   \* names of pages in wiki/entities
  Syncs        \* processes that run a sync, again and again

VARIABLES
  pages,       \* who wrote each page of wiki/entities
  manifest,    \* .kg-generated.json
  sync,        \* where each sync stands, and what it holds in memory
  mine,        \* history: pages a user wrote where kg had no claim
  tangled      \* history: a sync stopped between a new page and the manifest, or met another

wikiVars == <<pages, manifest, sync, mine, tangled>>

Authors == {"none", "user", "kg"}
IdleSync == [at |-> "idle", old |-> {}, graph |-> {}, write |-> {}, remove |-> {}]

WikiTypeOK ==
  /\ pages \in [PageNames -> Authors]
  /\ manifest \subseteq PageNames /\ mine \subseteq PageNames
  /\ \A p \in Syncs : sync[p].write \subseteq sync[p].graph
                      /\ sync[p].remove \subseteq sync[p].old \ sync[p].graph
  /\ sync \in [Syncs -> [at : {"idle", "check", "apply"}, old : SUBSET PageNames,
       graph : SUBSET PageNames, write : SUBSET PageNames, remove : SUBSET PageNames]]
  /\ tangled \in BOOLEAN

WikiInit ==
  /\ pages = [e \in PageNames |-> "none"]
  /\ manifest = {} /\ mine = {}
  /\ sync = [p \in Syncs |-> IdleSync]
  /\ tangled = FALSE

Applying == {p \in Syncs : sync[p].at = "apply"}

\* The manifest and the rows are read one after the other, with no write between.
ReadGraph(p, graph) ==
  /\ sync[p].at = "idle"
  /\ sync' = [sync EXCEPT ![p] =
       [IdleSync EXCEPT !.at = "check", !.old = manifest, !.graph = graph]]
  /\ UNCHANGED <<pages, manifest, mine, tangled>>

\* Mutant: only pages of the previous run are looked at.
ConflictsOwned(p) == {e \in sync[p].graph : pages[e] = "user" /\ e \in sync[p].old}

Conflicts(p) == {e \in sync[p].graph : pages[e] # "none" /\ e \notin sync[p].old}

Refuse(p) ==
  /\ sync[p].at = "check"
  /\ Conflicts(p) # {}
  /\ sync' = [sync EXCEPT ![p] = IdleSync]
  /\ UNCHANGED <<pages, manifest, mine, tangled>>

Accept(p) ==
  /\ sync[p].at = "check"
  /\ Conflicts(p) = {}
  /\ sync' = [sync EXCEPT ![p].at = "apply", ![p].write = sync[p].graph,
                          ![p].remove = sync[p].old \ sync[p].graph]
  /\ tangled' = (tangled \/ Applying # {} \/ sync[p].old # manifest)
  /\ UNCHANGED <<pages, manifest, mine>>

WritePage(p, e) ==
  /\ e \in sync[p].write
  /\ pages' = [pages EXCEPT ![e] = "kg"]
  /\ sync' = [sync EXCEPT ![p].write = @ \ {e}]
  /\ UNCHANGED <<manifest, mine, tangled>>

RemoveStale(p, e) ==
  /\ sync[p].write = {}
  /\ e \in sync[p].remove
  /\ pages' = [pages EXCEPT ![e] = "none"]
  /\ sync' = [sync EXCEPT ![p].remove = @ \ {e}]
  /\ UNCHANGED <<manifest, mine, tangled>>

Record(p) ==
  /\ sync[p].at = "apply"
  /\ sync[p].write = {} /\ sync[p].remove = {}
  /\ manifest' = sync[p].graph
  /\ sync' = [sync EXCEPT ![p] = IdleSync]
  /\ UNCHANGED <<pages, mine, tangled>>

\* The process dies, or a write raises.
StopSync(p) ==
  /\ sync[p].at # "idle"
  /\ tangled' = (tangled \/ (sync[p].at = "apply" /\
                             ~ (sync[p].graph \subseteq sync[p].old \union sync[p].write)))
  /\ sync' = [sync EXCEPT ![p] = IdleSync]
  /\ UNCHANGED <<pages, manifest, mine>>

SyncStep(p) ==
  \/ Refuse(p)
  \/ Accept(p)
  \/ \E e \in PageNames : WritePage(p, e) \/ RemoveStale(p, e)
  \/ Record(p)
  \/ StopSync(p)

---------------------------------------------------------------------------
(* Users *)

\* kg claims the names of its manifest, and those a sync that passed its check
\* is about to write.
Claimed(e) ==
  \/ e \in manifest
  \/ \E p \in Syncs : e \in sync[p].old \/ (p \in Applying /\ e \in sync[p].graph)

UserWrites(e) ==
  /\ pages[e] # "user"
  /\ pages' = [pages EXCEPT ![e] = "user"]
  /\ mine' = IF Claimed(e) THEN mine ELSE mine \union {e}
  /\ UNCHANGED <<manifest, sync, tangled>>

UserDeletes(e) ==
  /\ pages[e] # "none"
  /\ pages' = [pages EXCEPT ![e] = "none"]
  /\ mine' = mine \ {e}
  /\ UNCHANGED <<manifest, sync, tangled>>

UserStep == \E e \in PageNames : UserWrites(e) \/ UserDeletes(e)

---------------------------------------------------------------------------
\* "never delete user files" (wiki.py:139) and its converse: a page that a user
\* wrote where kg had no claim stays the user's, whatever syncs die, overlap or
\* follow; and between syncs, the pages kg wrote are the manifest's, so that the
\* next sync may replace them, unless one stopped halfway or met another.  It is
\* about the check before the writes (wiki.py:167) and the record after (180).
OwnershipKept ==
  /\ \A e \in mine : pages[e] = "user"
  /\ (~tangled /\ \A p \in Syncs : sync[p].at = "idle") =>
       \A e \in PageNames : pages[e] = "kg" => e \in manifest
================================================================================
