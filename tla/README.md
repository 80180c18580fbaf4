# Formal specifications of `kg`, the local memory

`kg` keeps a project's memory in `.kg/`: raw documents, a wiki, and one SQLite
database with a graph of entities, their embeddings and a full-text index. Agents
extract entities from documents; a *gate* resolves what they extract against what
is known and is the only writer of the memory graph; people merge entities and decide the
*reviews* of what the gate was unsure about. The database is used by several
processes at once: command-line sessions, MCP servers, hooks and the viewer.

This directory holds TLA+ specifications of that program, TLC configurations that
check them on small instances, and TLAPS proofs for every value of the constants.
`PROJECT.json` lists runs, theorems, hazards and the source lines of every definition.

    tlc -config KGGraph.cfg MCKGGraph.tla       # model-check one instance
    tlapm KGGraphProofs.tla                     # check proofs

## Inventory

| Component | State it keeps | Operations | Talks to |
|---|---|---|---|
| gate (`gate.py`, `ids.py`) | none of its own; writes nodes and edges | `normalize`, `merge`, `review_merge`, `reject_review` | storage (one transaction per operation), dedup |
| review sessions (`cli/review.py`, MCP `merge_nodes`, `review_*`) | what they read before the transaction, the audit record after it, `wiki/log.md` | merge, confirm, reject, list | gate, storage |
| dedup, resolve, embed | none | score a name against active nodes | storage (reads) |
| storage (`storage/sqlite.py`) | nodes, edges, `nodes_fts`, `nodes_vec`, generation, cluster cache | upserts, transactions, searches | SQLite (WAL) |
| ingestion (`raw_ops.py`, `registry.py`, `cli/save.py`) | `raw/`, `registry.jsonl`, chunk checkpoints | add, register, save, mark extracted | gate, files |
| session-end hook | transcripts as raw files, commit records, a lock | capture a session once | ingestion |
| code index (`cli/index_cli.py`, `code_index.py`, `file_hashes.py`) | `file_hashes.jsonl`, code nodes and edges, coverage | incremental index | storage, bypassing the gate |
| rebuild | `.rebuild-<uuid>/`, `.writer.lock` | build aside, publish | code index, files |
| community, cascade | `node_clusters` per generation | Louvain, cached | storage |
| snapshot | `snapshots/`, quarantine | snapshot, restore | files |
| wiki, deep pages | pages, manifests, hashes | sync, protect edited pages | storage, files |
| retrieval (`search`, `traverse`, `pack`, `router`) | none kept; a command holds seeds, rows, rankings and blocks between its statements | hybrid search, expansion, packing | storage (one read after another, outside a transaction) |
| Cypher subset | none | parse, translate to SQL | storage (reads) |
| viewer (`viz/`) | the set of running index jobs; ETags | read-only API, index jobs | storage, code index |
| graph UI: page (`App.tsx`, `kgAdapter.ts`, `i18n.ts`) | URL and history, runtime and capabilities, the shared language | navigate, resolve the runtime, learn the language | viewer, a packaged snapshot |
| graph UI: graph tab (`GraphTab`, `useGraphData`, `FilterPanel`, `Sidebar`) | layout, requests under way, budget per project, filters, selection | load, retry, refresh, filter, select | viewer (layouts), `localStorage` |
| graph UI: projects tab (`StatsTab`, `useProjects`, `rpc`) | list of projects, dialog, progress panel, polls | refresh, submit an index run, poll it | viewer (projects, index jobs) |
| graph UI: scene and panel (`GraphScene`, `NodeCloud`, `EdgeLines`, `NodeDetailPanel`, `density`, …) | camera, hover, idling, display settings, widths, code of a node | click, fly, drag, set, fetch code | graph tab, `localStorage`, viewer (code) |
| installer | files of other tools, ownership manifest | plan, apply, uninstall | files |

Which behaviours are hard: two processes decide the same review; a session dies
between the commit and the line it logs; a merge rewrites rows that reviews, other merges
and saves depend on; the registry and the file hashes are read, changed and written
back without a lock; caches are keyed by a counter that is not always
incremented in the transaction it describes; restores, rebuilds, wiki syncs and
hooks consist of several file operations and may stop between any two; the graph UI cancels
none of its requests, so that answers come late, in another order, or to a view that has
moved on. The hazards with their lines are in `PROJECT.json`.

What makes each component correct:

* *gate*: edges only between active nodes; every id ever handed out resolves to one
  active node of its type, for ever; sources, edges and reviews are never silently lost.
* *review sessions*: no review is decided twice, the log says what was committed, and
  a record is complete enough to tell what an irreversible merge destroyed.
* *storage*: readers that cache by generation never serve old data for a new one.
* *ingestion and hook*: a source is registered once, nothing captured is lost, and
  what is marked as extracted was extracted.
* *index and rebuild*: once indexing succeeds the database shows the files; failures
  are retried.
* *snapshot, wiki*: at every crash point one complete database exists; edited pages
  survive; a sync that died can be repeated.
* *graph UI*: the view is the one the URL names; optional controls appear only where a server offers
  them; a failed refresh keeps the graph; what is shown belongs to the project, the budget and the node
  selected; the list of projects catches up with the jobs, and polling ends.
* *retrieval*: an expansion returns what walks of so many steps lead to, within its bounds and with both ends of each
  edge, whatever is written meanwhile; the cut never drops a seed for a hub; a pack fills its budget in the order of the scores.

## The modules

| Module | What it is |
|---|---|
| `IdentityClasses` | Abstract: ids, the entity each belongs to, and the id that speaks for it. `Introduce` adds entities, `Unite` makes one of two of a kind. Nothing else ever happens. |
| `Deliveries` | Abstract: where each conversation is kept, and which deliveries were reported. `Keep` gives a conversation one place of its own, `Repeat` only reports again. |
| `KGGraph` | The gate and the sessions around it, row by row. |
| `KGGeneration` | The generation counter, its writers and the two readers that trust it, and the rebuild that replaces the file. |
| `KGFileIndex` | The incremental code index: a scan step by step, the registry of hashes, the index manager of the viewer. |
| `KGIngest` | Raw files, the registry, the conversation hook with its lock and log, and what `kg save` marks. |
| `KGApp` | The page of the graph UI: history and routes, the choice of the runtime, the shared language, the repository that nodes link to. |
| `KGGraphTab` | The graph tab: layout requests, budgets, filters, the sidebar's folders, selection. |
| `KGIndexView` | The projects tab beside the index manager of the server. |
| `KGDrawing` | Functions: what is drawn, how strongly, and where the camera looks. |
| `KGScene`, `KGNodePanel` | The scene with the settings around it; the panel with its code, its neighbours and the callout. Both extend `KGDrawing`. |
| `KGGraphArea` | Scene, settings and panel composed: what a click, a filter or a layout does to all of them. |
| `KGSnapshot` | The database as files: snapshots, and restores rename by rename with their undo. |
| `KGWiki` | The pages and the manifest: a wiki sync step by step, beside users who edit pages. |
| `KGUpkeep` | Snapshots, restores, syncs and commands that change the graph, composed over one database. |
| `KGTraverse` | Expanding nodes into a subgraph, statement by statement, beside transactions of the gate. |
| `KGRetrieval` | The commands that retrieve: searches, fusion, limit per source, budget and pack around `KGTraverse`. |
| `MC…` | Constants, symmetry and constraints for TLC, one module for each of the above that is run. |
| `KGGraphProofs` | Lemmas about the gate's operators, the inductive invariant, the safety theorems; that `KGGraph` implements `IdentityClasses`. |
| `KGReadingProofs` | Those who read while others write: the invariance of `GenerationInv` and of `RetrievalInv`, and what follows from them. |
| `KGFileIndexProofs` | What a scan holds and knows, step by step, and the four safety theorems. |
| `KGIngestProofs` | What the registry, the marks, the log and the answers are relative to each other while any processes are under way. |
| `KGAppProofs` | The invariance of `PageInv` and what follows from it; in its last part, `IndexInv` of `KGIndexView` and what follows from that. |
| `KGGraphTabProofs` | Which budget and which project each request, layout and limit of the graph tab belongs to. |
| `KGGraphAreaProofs` | Lemmas about sums, maxima and roots of `KGDrawing`, and the invariant of scene, settings, panel and data. |
| `KGUpkeepProofs` | What restores and syncs hold at each step, and all of the safety of `KGUpkeep`. |

### KGGraph: state and actions

| TLA+ | Code |
|---|---|
| `status`, `mergedInto`, `lineage`, `attr`, `conflicts` | `Node.status`, `merged_into`, `sources`, one key of `attributes`, `attribute_conflicts`; a row that is not there is `"absent"` |
| `edge`, `edgeLineage` | `Edge.status` and `sources` of the row with that id, `"absent"` if none |
| `request[p]` | what a confirming session read before its transaction (`cli/review.py:74`) |
| `audit[p]` | the `AuditRecord` the gate returned and the session still holds |
| `log` | the decisions with a full record in `wiki/log.md` |
| `committed`, `faults` | history: decisions made, crashes so far |
| `Save` | `Gate.normalize`: dedup verdict, id allocation, merges into matches, gray-zone reviews, extracted edges; one transaction |
| `Merge`, `ConfirmReview`, `RejectReview` | `Gate.merge`, `review_merge`, `reject_review`; each one transaction |
| `ReadReview`, `RefuseConfirm` | the read before the transaction, and the gate's refusal of what changed since |
| `AppendAudit`, `AppendFails`, `AnswerMcp` | what a session does with its record after the commit |
| `Crash` | a session dies between two of its steps |

A node id is `<<type, slug, n>>`, the `n`-th id of that type and slug
(`allocate_node_id`); an edge id is `<<source, semantic type, target>>`, as in the
code. Similarity is abstracted: dedup may answer with any active node of the type,
above either threshold, or with none. An operation whose validation raises rolls its
transaction back, so it is a disabled action. The transaction is `BEGIN IMMEDIATE`:
SQLite lets one writer in at a time, which is why an operation is one step.

Operators marked `(fault)` or `Mutant` are mistakes the code does not make. Each is put in the
place of the operator after it to show that some property notices (`mutants` in
`PROJECT.json`).

### KGGeneration: state and actions

The rows of a database are a pair of stamps, one for the active nodes and one for the
active edges; a change of rows is a new stamp. So "computed from the current rows" is an
equality of stamps.

| TLA+ | Code |
|---|---|
| `now[d]`, `main[d]` | what database file `d` holds (counter, rows, `node_clusters`), and what a copy of `kg.db` without its write-ahead log holds |
| `live`, `candidate`, `used` | the file at the path `kg.db`, the one in `.rebuild-<uuid>/`, and how many there have been |
| `indexing[i]` | how far process `i` is in storing one file: `upsert_nodes`, `upsert_edges`, and in each the increment (`sqlite.py:162`, `258`) and the rows |
| `request[c]`, `page[c]` | a layout request in progress, and the page with its ETag that the browser keeps |
| `louvain[a]` | how far a process is in `louvain_cached` |
| `BumpForNodes` … `CommitEdges`, `NextFile`, `CloseIndexer` | the indexer, outside any transaction: the increment commits by itself; an upsert may raise and the scan goes on |
| `GateWrite` | any operation of the gate: increment and rows in one transaction |
| `AskLayout`, `LayoutNodes`, `LayoutEdges` | `generation()`, then the queries of `build_layout_payload`, two statements apart |
| `AskClusters`, `GetClusters`, `LouvainNodes`, `LouvainEdges`, `StoreClusters` | `louvain_cached` and the queries of `louvain` |
| `CreateCandidate`, `Publish`, `Checkpoint` | `RebuildCandidate.create`, `publish`, and SQLite's checkpoint |

`settled` in a reading is history: no increment was waiting for its rows when the generation
was read. The properties hold of settled readings and only of those: a reader that
takes its tag between the increment and the rows of the indexer may keep old rows
under a tag that stays current (`sqlite.py:161`). The exception is that narrow: an
indexer that died or failed after its increment does no harm, nor does a write
between two statements of one payload.

### KGFileIndex: state and actions

| TLA+ | Code |
|---|---|
| `disk`, `edits` | the files: content (the set of symbols it defines, which stands for its digest) and time |
| `registry` | `file_hashes.jsonl`: the version recorded for each file |
| `nodes`, `partOf` | the code nodes with their `sha256` attribute; the nodes whose `part_of` edge is stored |
| `scan[p]` | what a scan holds in memory and where it stands |
| `job`, `active` | `IndexManager._jobs` and `_active` |
| `Begin`, `Classify`, `ClassifyUnreadable`, `Plan` | `plan_index`, `FileHashRegistry.classify` file by file, the sorting of the changes and the second load of the registry |
| `Parse`, `UpsertNodes`, `UpsertEdges`, `FileFails` | the body of the loop in `_project` and its `except` |
| `Register`, `Report`, `Exit`, `ScanFails` | the end of `_project`, or an exception that leaves it |
| `Start`, `Finish` | `IndexManager.start` and the `finally` of `_run` |
| `Edit`, `ServerCrashes`, `CliCrashes`, `RebuildFull` | the world around |

Node ids hold the bare name of the file, as in `_relative_path`: two files may share
them. `solo` and `quiet` (did a scan overlap with another one; was anything disturbed
meanwhile) and `tainted` (files whose record does not vouch for their nodes: they failed, scans
overlapped, the database was replaced) are history and steer nothing.

### KGIngest: state and actions

| TLA+ | Code |
|---|---|
| `Conversations`, `Renderings` | a conversation is its identity, harness, session and content (`_identity`), by which the log knows it; what `add_source` is given, and the registry compares by its digest, is a rendering: the conversation under a header that also holds the title and the counts of what was skipped (`format_conversation`) |
| `raw` | the files under `raw/`: none, being written (torn), whole; a file is a source and the day in its name |
| `registry` | the lines of `registry.jsonl`, in order |
| `log`, `lock` | `logs/ingest.jsonl`; the holder of `logs/ingest.lock` |
| `proc[p]` | where a process stands in `add_source`, `ingest_payload` or `save_cli`, and the lines it has read |
| `saved` | the chunks whose extraction the gate has stored |
| `Check`, `GetExisting`, `OpenFile`, `WriteFile`, `CheckAgain`, `AppendLine` | `add_source` with `Registry.has`, `get` and `append`; each look at the registry and each write is a step |
| `StartHook`, `ReadRecords`, `Commit` | `ingest_payload` under `_ingest_lock` |
| `Normalize`, `FindLine`, `LoadLines`, `Truncate`, `Rewrite` | `save_cli` and `Registry.mark_extracted`; `write_text` empties the file before it writes |
| `Crash`, `NewDay` | a process dies or raises at any step; the date changes |

A save that raises in the gate changes nothing and is no action. The chunk fields of a
line are always empty, since nothing calls `mark_chunk`, and are left out. What is
appended between `Truncate` and `Rewrite` is overwritten from the start of the file; if it
is longer than what is written, a fragment stays, which is not modelled. `known`,
`marked`, `answered`, `orphaned` (the files that a hook had registered and died before it committed) and `disturbed` are history. `disturbed` is set when a process reads or
writes the registry during somebody's rewrite, or dies in one: those are the known
holes, and the properties say that there are no others.

### KGApp: state and actions

| TLA+ | Code |
|---|---|
| `entries`, `here`, `route` | `window.history`, its open entry, the `route` state |
| `transport`, `runtime`, `told` | where `loadRuntime` stands, what it resolved to, and (history) the answer it came from |
| `cachedLanguage`, `languageLoaded`, `languageRequest` | the module variables of `i18n.ts` |
| `repo` | the state `repoInfo` of the graph tab (whose it is), and whose was asked for; history: the last request was refused |
| `phase`, `language` | for each component that uses `useUiMessages`: rendered, or its effect has run; the language it shows |
| `Navigate`, `PopState`, `Reload` | `navigate`, the `popstate` listener, the browser's reload |
| `LoadLive`, `LoadSnapshot` | the two requests of `loadRuntime`; the second only after the first was refused |
| `RepoAfter`, `RepoAnswers` | the effect of `GraphTab.tsx:253-270` and its answer; kept here since it follows route and runtime |
| `Render`, `Listen`, `Leave`, `LanguageArrives` | first render, effect, clean-up of `useUiMessages`; the end of `loadUiLanguage` |

The server of this repository answers false for `code_view`, `missed_graph`, `dead_code`, `adr` and `control`
(`viz/api.py:48-60`). The client is modelled for any capabilities, since it is written and tested for them.
A request for the repository that is refused leaves the repository of the project before; `LinksOfProject`
excepts it and nothing else.

### KGGraphTab: state and actions

| TLA+ | Code |
|---|---|
| `Layout`, `Cut`, `RenderId` | `_build_layout_payload_impl`: one statement counts, one takes the first `limit` entities, one takes edges, with any graph of the server before each; a node is numbered from 0 in the order of the ids |
| `Snapshot` | `build_snapshot_payload`: the packaged graph, of one moment |
| `saved`, `budget` | the budgets in `localStorage`, which may refuse one; the state `nodeBudget` and the project it was read for |
| `flight`, `loading`, `failed`, `data` | calls of `fetchOverview` under way, oldest first; the state of `useGraphData` |
| `labels`, `types`, `statuses`, `missed` | the four kinds of filters |
| `selected`, `highlighted`, `path` | `selectedNode` (its number, and which entity it was), `highlightedIds`, `selectedPath` |
| `Answer`, `Deliver` | the response is made; its body has arrived and the hook sets its state, in any order among requests |
| `Mount`, `ChangeProject`, `Unmount` | the effects on `project` and `nodeBudget`; coming back to the project whose budget the tab still holds fetches twice |
| `CommitBudget`, `Refresh`, `Retry` | the budget field, the refresh button, the button of the error screen, which asks without a budget |
| `HandleNodeClick` … `ClearSelection`, `ToggleFilter`, `EnableAll`, `DisableAll` | the handlers of those names |

The graph of the server is not a variable: an answer may be of any graph it ever had, and so may one that the browser's cache gives
for an ETag (`viz/server.py:149`). The cap on edges (`_MAX_EDGES`) is not reached, and `localStorage` is read without failure.

`manner`, `refused`, `torn` and `unstored` are history: whether requests overlapped since the last clean start, how the
last one ended, whether the graph that was counted was not the one that was cut, and the budget that was used without being stored.

### KGIndexView: state and actions

| TLA+ | Code |
|---|---|
| `jobs`, `active` | `IndexManager._jobs` in the order of their slots, emptied by a restart; the path of the one that runs |
| `completed` | how many runs have completed in the server's own database, that of `Served` |
| `modal`, `submits` | `CreateIndexModal` and its requests under way |
| `indexing`, `watching`, `shown`, `polls` | `IndexProgress`: shown, `hasActive`, its jobs, its requests under way |
| `list`, `requests`, `loading`, `listError` | `useProjects`; the list has one project, the server's own (`viz/server.py:224`), and is how many of the runs there it shows |
| `AnswerX`, `DeliverX` | the server handles a request; the client handles its answer |
| `Owned` | what happens to a request whose dialog or panel is gone: the closures of the tab still run |

A run on another path ends like any other and occupies the same slot, but writes the database under that path (`index_cli.py:22-29`): no list
ever shows it. What a run that failed has written is not counted, and a server that restarts serves the same project.

`due` and `mixed` are history: the panel has gone by itself since a run on `Served` last completed; list requests overlapped.

### KGGraphArea: state and actions

| TLA+ | Code |
|---|---|
| `screen`, `data`, `hidden`, `ghost`, `highlighted`, `target` | what `GraphTab` renders: loader or graph, the layout, what the filters hide, the skeleton, highlights, `cameraTarget` |
| `views` | `showLabels` and `deadCodeView` |
| `flight`, `idle`, `spinning`, `hovered`, `crashed` | `CameraAnimator`, `IdleAutoRotate`, the tooltip, `ErrorBoundary` |
| `numbering` | the entity that each number of the layout stands for; another layout may number others (`layout3d.py:234-235`) |
| `settings`, `stored`, `dragging`, `menu` | display settings and widths as used and as stored, the handle dragged, the menu |
| `Store`, `Rounded` | the two writers to `localStorage`, which may refuse and whose refusal is swallowed; a width is stored in whole pixels (`GraphTab.tsx:41`) and used with its fraction |
| `selected`, `subject` | the node that is selected, by its number, and the entity it stood for then |
| `code`, `codeLoading`, `codeError`, `calls` | `NodeDetailPanel` and its requests for source code |
| `copied`, `copying`, `issues` | `MissedCallout` and the tracker's address kept for the page |
| `Clamp`, `LoadSettings`, `Strength`, `Brightness`, `ComputeCameraTarget` | `density.ts`, the colour loops of `NodeCloud` and `EdgeLines`, `computeCameraTarget` |

Fractions, of multipliers and of pixels, are in thousandths, and a place is a point of one axis, the three axes being treated alike.
`refused`, `crossed` and `renumbered` are history: the settings that were used without being stored, and whether the panel moved
during a request or came to another entity under the number it shows. The tracker's address is only asked for or answered, whatever it is.

### KGUpkeep: state and actions

| TLA+ | Code |
|---|---|
| `live` | `kg.db`, and `kg.db-wal` as what a reader of both sees; `Missing` if there is no such file |
| `artifact`, `backup[s]` | `kg.db.zst`, and what a snapshot command has copied but not published |
| `restore[r]` | where `restore_snapshot` stands, what it unpacked, and `quarantined` |
| `Unpack`, `MoveAside`, `Install`, `Settle`, `Discard` | the check and the unpacking, the two renames aside, the rename into place, the `fsync` of the directory, the removal of what is aside |
| `Raise`, `RemoveInstalled`, `PutBack` | a step raises, and the undo in its order |
| `DieRestoring` | the process dies at any step, or the undo raises |
| `Commit`, `OpenDatabase` | any command that opens the database; a missing one is created, and SQLite drops the write-ahead file it finds beside it |
| `pages[e]`, `manifest` | who wrote a page last, `.kg-generated.json` |
| `sync[p]` | `old_files`, the names of `pages`, and what is still to be written and removed |
| `Refuse`, `Accept`, `WritePage`, `RemoveStale`, `Record` | the check, `_atomic_write` of a page, `unlink`, the new manifest |
| `StopSync` | a sync dies or raises |
| `UserWrites`, `UserDeletes` | anybody edits `wiki/entities` |

`left`, `last`, `disturbed`, `mine` and `tangled` are history: what dead restores have aside, the files as the last
command left them, whether a command wrote between two renames of a restore, the pages users wrote where kg had no claim, and
whether a sync stopped between a new page and the manifest or met another. A command opens and closes the database in one
step: connections that stay open across a restore are not modelled.

### KGRetrieval: state and actions

| TLA+ | Code |
|---|---|
| `status`, `links`, `writes` | `nodes.status`, the active rows of `edges`, how many transactions others made meanwhile |
| `asked`, `next`, `seeds` | the arguments of `expand_with_meta`, how many of its ids were read, the positions of those that were active |
| `view`, `queue`, `table` | the edges as the recursive query saw them; its rows still to be taken and taken: a row is a node and a distance |
| `todo`, `nodes`, `edges`, `answer` | what `neighbors` still has to read, what it read, the subgraph returned |
| `lexical`, `semantic`, `ranked`, `kept`, `counted` | `bm25_ids`, `vec_ids`, the fused ranking, the part of it that stays per source, the nodes `adaptive_budget` counted |
| `budget`, `score`, `rest`, `packed`, `spent` | `pack`: its budget, the scores, what is still to be packed, the blocks, `used` |
| `ReadSeed`, `StartQuery`, `SkipQuery` | `adapter.get` of each seed (`traverse.py:80`), and the condition around the query |
| `TakeRow`, `FetchRows` | SQLite takes a row of the recursive query; it ends by itself or by its `LIMIT` |
| `ReadNode`, `ReadEdges`, `Rank` | the rest of `neighbors`, two more kinds of statement; the filter and the cut of `expand_with_meta` |
| `SearchText`, `SearchVectors`, `Fuse` | `graph_aware_hybrid_search` with `weighted_rrf` |
| `LimitNext` | one turn of the loop of `diversify_by_source` |
| `ChooseBudget`, `CountNodes`, `CountEdges` | the budget option, and the two counts of `adaptive_budget` |
| `StartPack`, `PackBlock` | the ranking of `pack`, and one block after another |
| `AskExpand`, `AskPack`, `AskQuery` | `kg expand` and `expand_memory`; `pack_context`; `kg query` |
| `OtherWrites` | a merge or a save of the gate (as in `KGGraph`, reduced to what is active), committed between two statements |

Only the order of scores matters, and how well a text or a vector matches may be anything: rankings are arbitrary
sequences without repetition, so the weights of the fusion are not seen. The order in which SQLite takes rows and returns
them is left open. A block is its number of tokens; budgets are adapted in exact fractions where the code multiplies floats. The
vector search looks at each hit again after its query; here it is one step. `quiet` is history: nobody wrote since
the command began. Other writers are those of the gate only; a code index writes rows without it, in transactions of its own.

## What the runs show

| Run | Instance | Checks |
|---|---|---|
| `kg_graph` | one name in two spellings, 3 nodes, ids `ann`, `ann-2`, `ann-3`, extracted `uses` and `same_as`, 2 edge rows before a save commits, one session | edges never dangle, tombstones lead to an active node, reviews stay decidable and are not lost, records are complete, merges keep edges, the graph implements identity classes |
| `kg_sessions` | two names with different values, two command lines, one MCP session, two documents, one fault | nothing is decided twice, the log tells the truth, sources are kept, merged values are kept or recorded |
| `kg_generation` | two indexers, a browser or a cluster computation, the gate, a checkpoint and one rebuild; two changes of rows, counters to 3 | a page or a set of clusters kept under the current generation is current |
| `kg_file_index` | two files of one bare name, one job slot of the web server, one command line, two edits, one fault | what the next scan would skip is in the graph; an undisturbed scan catches up; edges have their nodes; every admitted job ends |
| `kg_ingest` | one conversation that may come under two titles and one document, two hooks, one `raw add`, two saves, one crash, two days | what was registered, marked or reported stays; a conversation is committed once, and registered again only under another title after a hook died; the hook implements `Deliveries` |
| `kg_app` | two projects, three history entries, one reload, a list and a sidebar that show text; answers of this server, of one with other values and unknown keys, of one that sends no object | nodes link to the repository of the project shown; the page settles |
| `kg_graph_tab` | two projects and the snapshot, two entities, budgets of one and two, one of them stored, two requests in flight, one filter set | the tab settles on the last answer, keeps each project's budget, and never loses its graph to a failure |
| `kg_index_view` | the server's project and another one, two jobs, two list requests, one poll and one submission in flight, restarts, lost answers | the list catches up with the jobs of its project; polling ends |
| `kg_graph_area` | three nodes and a skeleton, two edges, a density above the references of nodes and of edges, colours by kind and by status, two numberings of four entities, any two concerns at a time | the selection stands out; settings come back; code belongs to its node |
| `kg_upkeep` | two entities, two restores, two syncs and one snapshot of which any two run at a time, four commands started, one dead restore whose files stay aside | the last database is in place or aside at every step; kg leaves the pages of users alone and accounts for its own |
| `kg_retrieval` | three nodes and two types of edges, three graphs (a chain with a cycle, a star, one with a tombstone); five expansions in four directions with tight caps and work budgets, `pack_context` with three budgets of tokens, `kg query` with two policies; up to two transactions meanwhile | the recursive query finds what walks lead to and nothing else, a cut keeps what comes first, an answer is exact if nobody wrote, the ranking is limited per source and the pack fills its budget |
| `kg_merges_logged` | one session, one MCP session | `docs/ops/runbook.md` is violated: a merge made through MCP is not logged |

Bounds. `MaxNodes` = 3 gives merge chains of two, a collision of two rebuilt edges, and a
third node whose edges a merge must leave alone; `MaxSuffix` lets each of the three
have its own id of one slug, so that a tombstone's id could be reused by mistake.
`MaxLinks`, the extracted edges of one save, is one, as several saves make more.
`MaxEdges` bounds the table only when a save commits. Two sessions are enough for
every race of this protocol, since the gate serialises the rest. The proofs remove
these bounds: they hold for any sets and any bound.

For the generation, a property needs one increment to tell and one to follow it,
and two indexers so that one's increment can hide the other's; two databases are one
rebuild. For the index, two edits bring a file back to an old content while a scan is
under way; the job slot is used again when its job has ended, so one slot stands for any number of jobs one after the other. The constraint `OneKindOfReader` leaves out behaviours with a browser and a
cluster computation at once, which share nothing they write; `OneRival` combines a
command-line scan only with one job and one edit or fault, to keep the run short.

For ingestion, two days give a source two file names, and one crash leaves every half-finished
state behind for the next process. `TwoAtOnce` lets any two processes interleave, with others before
and after them; every race of this code is one of two. One chunk is enough there, as the order of chunks
plays no part. Two headers are two renderings of one conversation; a third would only be registered after a second crash.
The date is part of a file's name and of nothing else, so `DayMatters` lets it change only where
a writer would come upon a file that exists, and not once a rewrite was disturbed, of which only `MarkedAfterSave`, `ImplementsDeliveries` and the one record of
`ConversationsOnce` still speak. The proofs need neither constraint, and no bound.

For upkeep, four commands are a change, a snapshot, another change and a restore that fails; or two
syncs with users between them and a restore before each. `MaxCommands` bounds what is started, `MaxLeft` how many dead restores leave
files aside; `TwoAtATime` lets any two commands interleave. The proofs need none of these bounds.

For retrieval, three nodes give a walk of two steps, a node met at two distances, a hub beside two leaves and a
cut between them; caps and work budgets run from zero to more than there is, so that each bound is met and missed. Seeds are active, merged away,
or asked for twice. `MaxWrites` bounds the transactions of others: two change the graph between the seeds and the query and
again before the edges are read. A `kg query` meets one of them, or none when it goes two hops (`FewWrites`), since most of what it adds is searches and rankings of any kind. `MaxHits` and `SeedWindow` (10 in the code) bound the hits of a search and how many become seeds,
and `Scores` are two, for ties and their opposite. The proofs need none of this.

The type invariants of all modules are proved, and no run checks them any more. The same holds of `FailsClosed` of `KGApp`, and in
`KGRetrieval` of `WorkBounded`, `SeedsSurvive`, `AnswerJoined` and `PackInOrder`, which TLC found true before they were proved.

For the graph UI, two requests of a kind are enough for every reordering: the hooks keep the last
answer and one flag. `MaxPolls` is one although the timer may overlap: with two, a late empty answer
after a restart can leave a panel that does not poll and that nothing dismisses; the instance leaves this
out, and `PollingEnds` says nothing about it. Two projects are the server's own
and any other. `MaxStray` bounds how many filters differ from "all", and `MaxSaved` for how many projects a budget is stored: one, which
leaves another project that must not get it. In `kg_graph_area` a slider has one value besides its default, a drag moves by 90.4 pixels, so that
widths are fractions, and the two numberings are those before and after the first of four entities was archived.
`MaxBusy` bounds how many concerns of the graph area besides the selection (hover, flight, error, turning, views, the skeleton, menu, drag, code, callout,
a refused setting, a number that was passed on, each setting that was changed) are under way at a time: the properties relate at most two of them.
Projects differ in nothing, so `kg_graph_tab` takes them as symmetric.

`CHECK_DEADLOCK` is off for the runs of the graph UI, whose user may stop at any time, and for those of the graph: a bounded instance stops when its nodes are
used up and its sessions are done. There is no liveness property of the graph: nothing
in the code obliges anybody to decide a review, and so the graph's specification states no fairness.
`FairSpec` of `KGFileIndex` states weak fairness of each job's own thread, and of nothing else: a thread
that was started keeps running, since no step of a scan waits for another actor (a locked
database raises after its timeout, which is `FileFails` or `ScanFails`). Nobody need edit, crash, start a job or run the
command line. That the thread does start is assumed; `IndexManager.start` occupies its slot before it starts it.

`FairSpec` of `KGApp`: requests are answered or refused (`fetch` ends either way), and effects of rendered
components run. `IndexFairSpec` of `KGIndexView`: a job of the server ends (`kg_file_index` checks that), the interval ticks, a
request is answered or refused; a poll may be lost, but not every one (strong fairness). In neither is the user obliged to
anything. `KGGraphTab` and `KGGraphArea` have no liveness property and state no fairness.
`RetrievalSpec` states none either: a retrieval command waits for nobody, and each of its loops goes once through a list that is fixed
when it starts, or ends by its `LIMIT`.

## What is proved

Every invariant and every action property that a passing run checks on a small instance is
also proved, for every value of the constants; only the liveness properties are not.

All of the safety of `KGGraph` is proved for all constants that satisfy
`ConstantsAssumption` and `NoneAssumption` (finitely many command lines; types of
mentions; None is not an id). The argument, in `KGGraphProofs`:

1. `StepKinds`: a step is a save, a merge, a rejection, or leaves the graph alone.
2. `IInv` is inductive. No part of the safety is inductive alone. That edges stay on active
   nodes needs the loser's edges to be so; that reviews stay decidable needs that; that nothing is decided twice needs to
   know that what was decided stays so (`DecisionsSettled`: its edge row has another
   status, or lies on a tombstone and by `EdgesAnchored` is gone for good), which in turn needs that
   a gray-zone edge starts at a node that did not exist. The trail in the log
   needs `RecordsOpen`: what a session holds is committed, its own, and not yet logged.
3. Each conjunct is preserved by each kind of step (`AnchoredStep`, `ResolveStep`,
   `DecidableStep`, `DecisionsStep`, `TrailSession`), and `InvStep` puts them together.
4. The action properties follow from `IInv` and one step.

The last part of `KGGraphProofs` proves the refinement. Where a pointer chain leads is defined
without recursion: `LeadsTo(n, a)` says that `a` is in every set that contains `n` and that
`merged_into` does not leave. `TombstonesResolve` (no set of tombstones points
only into itself) gives the induction along merges: whatever holds of active nodes and
passes from a node to those merged into it holds of all (`AlongMerges`). So every
id leads to exactly one active node of its type, a merge moves exactly what led to its loser, and a
save moves nothing.

`IInv` was checked with TLC on the instance of `kg_sessions` before it was proved.

`KGReadingProofs` proves in its first part the type invariant of `KGGeneration`, `PagesCurrent` and
`ClustersCurrent` for any processes and bounds, from `ConstantsAssumption`. The properties
are not inductive: the invariant `GenerationInv` adds that a settled tag is never ahead of the
counter, and that no increment waits for its rows while the counter still shows the tag
(`Safe`). Rows then change only after an increment that the tag does not have
(`RowsFollowIncrements`), so what was read at a settled tag stays (`ReadingsKept`): the nodes read until the edges
are, both until they are stored, and after that page and clusters. For a copy
(`main`) it is enough that its clusters are not ahead of its counter. What indexers, clients, analysts and the others
leave alone is said once for each of them (`IndexerFrame`, `ClientFrame`, `AnalystFrame`, `OtherFrame`).

Its second part proves all of the safety of `KGRetrieval`, for any ids, graphs, questions, rankings and bounds, from
`TraverseConstants` and `RetrievalConstants` (finitely many ids and types of edges). `RetrievalInv` has these parts:

1. The types, and `ReadInOrder`: what a statement reads is empty until it has run.
2. `RowsClosed`, `RowsBounded` and `QueryInv`, for the recursive query. Each row is the end of a walk, since one more step prolongs it
   (`WalkOn`); each row taken has all it leads to either taken or in the queue. When the queue is empty the rows are therefore closed
   under steps, and a walk cannot leave them: the least distance at which one would is a contradiction (`LeastDistance`,
   `ClosedFindsWalks`). The order of the rows plays no part.
3. `QuietInv`: as long as nobody wrote, what was read is what the graph holds. Only `QuietAnswerExact` needs it.
4. `AnswerInv`, `ExpandInv`: the answer is what the cut makes of seeds, nodes and edges. That a cut to `cap` keeps exactly so many, and
   that they come first, is a fact about any strict total order on a finite set: the map from an element to how many come before it is
   an injection into as many numbers, and so a bijection (`FirstOnes`). The key of the code is such an order, ties and
   seeds asked for twice included (`BeforeTotal`, `ShownOfEntries`).
5. `LimitInv` counts per document what stayed among the positions seen; `PackInv` says that every block packed comes before all that
   are left, and that what was skipped did not fit. Since `spent` only grows it does not fit later either.

`RetrievalInv` was checked with TLC on the instance of `kg_retrieval` before it was proved. The budget is not the
pack's only bound: a header that exceeds it is kept without blocks, which `PackFits` allows for.

`KGFileIndexProofs` proves all of the safety of `KGFileIndex`, for any files, contents, bare names, jobs and command
lines, and any number of edits and faults, from `ConstantsAssumption`. Four invariants, each inductive
relative to the ones before it:

1. `HeldInv`: the types, and that a scan that parses or stores has a file in hand which it found (`Held`).
2. `AnchorInv`: a scan between nodes and edges finds the nodes of its file there (`NodesStored`), unless its database
   was replaced. Nothing but a full rebuild removes a node, and it takes all edges with it.
3. `QuietInv`: of two scans under way neither thinks it is alone (`Alone`), and an undisturbed one that is alone knows
   both the registry and the disk (`Current`). What the steps of others may make of a scan is one lemma (`Outlives`).
4. `SkipInv`, for `SkippedIsIndexed`. A version that was seen is not younger than the clock, so an edit never makes a file look
   like a version that was seen (`Clock`). What was parsed is what was classified, unless the file was edited since (`Carried`). A scan that
   may still be trusted is not about to overwrite the nodes of a recorded present version (`Informed`), and has
   seen to each file it found: left to do, failed, unchanged, or in the graph (`Diligent`).

All four were checked with TLC before they were proved, on the instance of `kg_file_index` and on one whose two files have different bare
names; there the digest in the nodes counts too, which files of one name share.

`KGIngestProofs` proves all of the safety of `KGIngest`, for any sources, files, chunks and processes, from its
`ConstantsAssumption`. Only types are inductive; the other invariants rest on one another:

1. `RolesInv`: the types, and that each process is at a step of its own command with a source or file of its kind; a hook
   at work holds the lock.
2. `RegistryInv`, for `RegistryKeeps`. As long as no rewrite was disturbed, the files and the marks of the registry are those that were
   ever put there, except while a saver has emptied it; what that saver then carries in memory (`Carries`) is all of
   them and its own mark, and it is the only one that rewrites.
3. `ConversationsInv`, for `ConversationsOnce`: a hook past the log works on a conversation that is not committed, and
   it knows whether it is registered (`AtWork`); what was committed is committed once, registered, and its file whole (`RecordsInv`);
   the registry, or what will replace it, has each rendering once (`LinesInv`). `AnsweredIsStored` follows.
4. `OwnersInv`: the file of a rendering that was ever registered has a committed record, is about to have it by the hook
   that holds the lock, or was left by a hook that died. Two files of one conversation cannot both be among the first two kinds, which gives the
   rest of `ConversationsOnce`.
5. `SavedInv`, for `MarkedAfterSave`: every saver works on a source of which something was saved, and so is whatever
   is marked in the registry or in the lines a saver holds.

`HookImplementsDeliveries` proves that `KGIngest` implements `Deliveries`, a conversation being kept where its committed
records say: a hook that commits works on a conversation that has no committed record (`AtWork`) and names a file
of that conversation (`FileAtHand`), so the step is `Keep`; one that finds a committed record takes the step `Repeat`; nothing else
touches the log or the answers. Unlike the invariants about the registry it holds through disturbed rewrites too: the log is only appended to.

`KGAppProofs` proves the type invariant of `KGApp`, `FailsClosed` and `LinksOfProject` for any
projects, components, answers and histories, from `AppConstants` (a name is not `None`, and `None` is no
runtime). `LinksOfProject` alone is not inductive: an answer must not be that of a project left behind.
`AskedIsShown` says why it cannot be: a change of project or of tab cancels the request, so the one
under way is always about the project shown. Every change of route goes through `SwitchTab` (`SwitchKinds`), and what
the effect of the tab then leaves is one lemma (`EffectOfTab`). `PageInv` was checked with TLC on the
instance of `kg_app` first.

Its last part proves the type invariant of `KGIndexView` and `ListCatchesUp` for any number of jobs, requests and
restarts, from `IndexViewConstants`. The two modules share no name, so one module of proofs extends both. `JobsInv`, `DialogInv` and `ProgressInv` say who owns what: one job runs, one submission at most belongs to
the dialog that is open, none to a tab that is gone, and polls exist only while the tab is shown, so
whoever calls `onDone` has a list to fetch. `ListInv` needs that without an overlap there is one request at most, and
that it does not bring a list older than the last run on the server's own project that `onDone` announced: `completed` only moves with such a run, which
ends what `due` says.

`KGGraphTabProofs` proves the type invariant, `SettlesOnAnswer`, `BudgetOfProject` and `KeepsLastGraph` of `KGGraphTab` for any
projects, entities, budgets and requests, from `GraphTabConstants`. `TabInv` is `TypeOK` with the kinds its records are of (`Kinds`),
`RequestsInv`, and `BudgetOfProject`, which is inductive beside the types since a budget that could not be stored is forgotten wherever one is read. `SettlesOnAnswer` speaks of the moment when no request is
under way; `RequestsInv` says what leads there: as long as requests did not overlap there is one at most, the loader
is shown until it ends (`Asking`), it asks for the budget of the tab, and nothing can be highlighted meanwhile. Two facts
need an argument of their own: a graph that was cut has exactly as many nodes as it was
allowed, whenever it was counted (`CutCounts`, by the cardinality of the first entities in the order of their ids), and whatever is typed, the budget is a
positive number of steps within the maximum (`ClampedIsBudget`).

`KGGraphAreaProofs` proves all of the safety of `KGGraphArea`, and so of `KGScene` and `KGNodePanel`, for any layouts, paths, code and
settings, from `AreaConstants`, `DrawingConstants`, `LayoutConstants`, `ColorConstants`, `DensityConstants`, `SceneConstants` and `PanelConstants`. Two conditions among them were added for the proofs: a node has a size of at least one (`layout3d.py:267`), and
the folders of the sidebar are made of nodes of the layout (`GraphTab.tsx:435`). `AreaInv` has four parts:

1. `SceneInv`: where the camera looks, and from how far, is of its kind. The camera averages positions and measures the widest
   distance, so this needs that a sum over a finite set of integers is one and that its greatest value exists
   (`SumTyped`, `GreatestValue`), which a smallest counterexample shows in place of an induction.
2. `SettingsInv`, for `SettingsComeBack`: unless it was refused, what is stored of a setting is what is used, rounded where the code
   rounds, and in any case within the limits that the reader of the store applies; what was never stored has its default. That rounding to
   pixels does not leave limits that are whole pixels is a lemma (`NearestPixel`, `KeptStorable`), and so is that the
   readers change nothing of what was stored (`ReadWhatIsStored`, `SettingsRead`).
3. `PanelInv`, for `CodeSettles`: while the panel has stayed with one number and that with one entity (`Steady`), the code it shows and every
   request for code are of that entity, and a request is under way as long as the panel says so.
4. `DataInv`: the layout, the filters and the highlighted nodes are of the graph that is shown.

`SelectionStandsOut` follows from `AreaInv` and arithmetic: that the integer root exists (`RootExists`), that a lit node glows above
the base and the others are faded (`GlowsAboveBase`, `FadeBounded`), and that edges outside the selection are never brightened
(`EdgesNeverBrightened`).

The invariants of `KGIngestProofs`, `TabInv`, `AreaInv` and `IndexInv` were checked with TLC on the instances of
their runs before they were proved.

`KGUpkeepProofs` proves all of the safety of `KGUpkeep` for any entities, processes and bounds, from
`SnapshotAssumption` and `UpkeepAssumption` (a missing file is no file; an entity stands for the name of its page).
Neither property is inductive. `DatabaseKept` does not say which copy is the good one: the same graph in place may be
about to be unlinked. `Traced` says, for each step of the one restore that exchanges files, where each part of the last database is:
the database aside from the first rename on, the write-ahead file from the second until it is put back; and
that nothing lies where the copy is about to be put. Snapshots, waiting restores and opening an existing database do not disturb
this; a second restore that starts to move files does, and the code has nothing against it. `OwnershipKept` needs that no sync has in its memory a page
of the user (`Untouched`), which the check establishes (`AcceptKeeps`); and, for kg's own pages, that what is not in the manifest was just written by the
one sync under way, and what that sync will leave out of the manifest is removed or still to be removed (`Accounted`).
Both invariants were checked with TLC on the instance of `kg_upkeep` first.

## What is only checked, and what is not modelled

The liveness properties (`JobsEnd`, `PageSettles`, `PollingEnds`) are model-checked only: the provers reason neither about
fairness nor about ENABLED. The violated statement is a counterexample and needs no proof.

Other places where documents and code disagree, met while modelling. The models follow the code, and the
properties allow for it:

* a save that is matched to a node drops a disagreeing attribute value (`gate.py:415`), while `docs/architecture/data-model.md:56` says conflicts are
  "appended on merge when attributes disagree";
* a fact in the gray zone of another gets a `same_as` edge (`gate.py:152`), while `data-model.md:102` says "It has **no edges**";
* an extracted `same_as` edge is stored as active (`gate.py:202`), while `data-model.md:94` gives such edges other statuses;
* publishing a rebuilt database may take the generation back (`rebuild.py:104`), while `storage/sqlite.py:111` calls it monotonic;
* saving one chunk marks the whole source as extracted (`cli/save.py:83`), while `docs/ops/runbook.md:141` says an extraction resumes where it left off;
* the hook's repair never finds the header it looks for (`hooks/session_end.py:384` with the pattern of line 363), so a conversation whose hook died
  is written to a second file on another day;
* "Re-ingest by same content hash = no-op" (`docs/superpowers/specs/2026-07-26-kg-unified-memory-design.md:86`): for a conversation the hash that the registry
  compares is that of its rendering (`raw_ops.py:33`), not of its content (`hooks/session_end.py:308`). After a crash between the line of the registry
  and the record of the log, a delivery under another title is registered as a second source; `ConversationsOnce` allows for exactly this;
* after one failed job, a later job that succeeds ends the polling without `onDone` (`StatsTab.tsx:81`, as the server keeps every job it had), while
  `StatsTab.test.tsx:234` is named "stops polling and calls onDone when indexing finishes successfully": the panel stays with the old failure;
* `restore_snapshot` is said to restore "Atomically" (`snapshot.py:90`): between the first rename and the third there is no `kg.db`. A crash there is repaired by nothing;
  a command run then creates an empty database, and SQLite drops the write-ahead file if it was not moved yet;
* without `--force` an existing database is refused only before the unpacking (`snapshot.py:94`): one that another command creates meanwhile is replaced and deleted;
* "a page a user wrote gets skipped" (`docs/ops/runbook.md:93`): `sync_wiki` refuses to write any page as long as one of its names is taken (`wiki.py:168`). The same happens for good
  after a sync that died between a new page and the manifest, for kg's own page is then taken for a user's;
* "never delete user files" (`wiki.py:139`): a page that a user writes under a name of the manifest is overwritten, or removed when its entity is gone.

* an adapted budget may exceed the configured one: `adaptive_budget` returns 1.2 times it for a sparse graph (`pack.py:111`), while
  `docs/superpowers/specs/2026-08-01-graph-aware-query-design.md:108` takes the lesser of the two;
* the result of an expansion says `truncated` only if at least `max_nodes` nodes were found (`traverse.py:112`), while the `LIMIT` of the query
  counts rows, of which a node has one for each distance at which it is met (`storage/sqlite.py:307`), and `traverse.py:18` calls it "True if traversal work budget
  (`max_nodes`) was hit". TLC finds an expansion of one seed with a budget of one that was stopped with rows left and does not say so;
* `expand_memory` takes `both`, `outbound` and `inbound` (`mcp/handlers.py:286`) and hands the word on, while the storage knows `out` and `in` and takes any other word as both
  (`storage/sqlite.py:293`), although "`direction` filters which endpoint we step out of": an expansion along outgoing edges also follows incoming ones.
  `Crossings` models this;
* "`pack_context` applies both as pre-filters" (`docs/superpowers/specs/2026-08-01-graph-aware-query-design.md:111`): neither `pack_context` nor `kg query` limits what is packed per
  source. `kg query` limits the ranking, of which only the scores reach the pack (`cli/query_cli.py:89`), and packs the whole subgraph;
* a node is selected and highlighted by its number in a layout (`GraphTab.tsx:287`), while
  `docs/superpowers/specs/2026-08-02-cbm-3d-graph-ui-design.md:82` has the original id "used for selection and detail lookup": after a change of budget the panel
  lists the neighbours of another node. For the same reason the code of the entity before stays where "Reset the fetched code whenever the selected node changes"
  (`NodeDetailPanel.tsx:66`) promises otherwise, as the effect depends on the number; `CodeSettles` excepts this (`renumbered`);
* the notice "Showing … of … nodes" (`GraphTab.tsx:66`) compares a count with rows that another statement read (`viz/api.py:127`, `131`): when the graph changes between the two it may name
  a total that never went with these nodes, or be left out although the graph was cut. `SettlesOnAnswer` excepts such an answer (`torn`);
* "Persist panel widths", "Persist the node budget per project" (`GraphTab.tsx:32`, `44`) and the display settings: a store that refuses is ignored, so
  that what is used is not what comes back, and a width comes back rounded;
* a run may be started on any path (`viz/server.py:204`), while the list that is fetched when it ends shows the server's own project only (`viz/server.py:224`): the run on another
  path is reported as done and appears nowhere;
* "seeds always kept" (`traverse.py:54`): with more seeds than `cap` the cut is strict, as the comment at `traverse.py:121` says. `SeedsSurvive` speaks
  of seeds that have room;
* `expand_memory` reports `truncated_count` as what exceeds `cap` after the cut, so it is always 0 (`mcp/handlers.py:311`).

Not modelled: similarity scores and embeddings (numbers), summaries and aliases
(display text), the Cypher parser and translator (text), the arithmetic of layouts, the
per-tool installer templates, the text of wiki pages, deep pages and the lint, configuration. Listing, and the
plain searches, only read. The marker that takes the place of an answer of `expand_memory` that is too long for the protocol (`mcp/handlers.py:183-199`) is left out, too:
the properties of `KGRetrieval` are about the answer before it. Of `kg query`: the choice of the intent by a language model, its note and its log.
A search for a text without terms raises, and so does an argument out of bounds; both end the command before it reads.
A negative number of hops, which only `kg expand` lets through, counts as none.
Of the graph UI: projects linked to one another (the server never sends them), textures, opacity and shapes, the dictionaries of messages, the text of links to the
forge and the tracker, `fetchDetail` and `ProjectCard`, which nothing uses, the schemas fetched beside the list, and focus and keyboard
of the dialog. A tooltip that stays over a node that was filtered out, and the word "copied" shown on the next file,
are states of the model without a property.
Of the index: the write-ahead file that stays beside a database published over open
connections, the temporary file that two overlapping writers of the registry share (both
are outside what the code controls), import edges (filtered out before they are stored),
the written coverage report, and a file that changes between the `stat` and the read of one classification.

## Plan

In order, most important first; each keeps the form of the first module (constants
with assumptions, one action per operation, invariants in named parts).

1. `KGGraph`, `IdentityClasses` and their proofs: done.
2. `KGGeneration` and `KGFileIndex` with their proofs: done.
3. `KGIngest`, `Deliveries` and their proofs: done. The registry itself has no abstract specification that it implements: a disturbed rewrite
   loses lines, and `RegistryKeeps` says what it keeps otherwise.
4. The graph UI: `KGApp`, `KGGraphTab`, `KGIndexView` and `KGGraphArea` with their proofs: done.
5. `KGSnapshot`, `KGWiki` and `KGUpkeep` with their proofs: done. To be added: connections that stay open across a restore, as those of
   the viewer and the MCP server do.
6. `KGTraverse` and `KGRetrieval` with their proofs: done. To be added: the rows of a code index that is being stored meanwhile.
7. Code nodes that come back after a merge (`KGFileIndex` beside `KGGraph`).
