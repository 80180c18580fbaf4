------------------------------ MODULE KGGraphTab ------------------------------
(***************************************************************************)
(* The graph tab (GraphTab.tsx, useGraphData.ts, FilterPanel.tsx and        *)
(* Sidebar.tsx): the layout requests of one mounted tab, the node budget it *)
(* remembers for each project, the filters, and what the user selects.     *)
(*                                                                         *)
(* The server lays out the first entities of its graph in the order of     *)
(* their ids and numbers them from 0: this render id is all the tab selects *)
(* and highlights by.  The graph of the server changes at any time, also   *)
(* while one answer is made, so what an answer is made from is any of its  *)
(* graphs.  Requests are neither cancelled nor told apart, so two of them  *)
(* may be under way when the project changes, and may be answered in any   *)
(* order.  A tab that is unmounted ignores its answers.                    *)
(*                                                                         *)
(* Colours, counts, widths and the camera are left out (KGGraphArea has    *)
(* the camera), as are linked projects, which the server never sends.      *)
(***************************************************************************)
EXTENDS FiniteSets, Integers, Sequences

CONSTANTS
  Projects,
  Entities,           \* numbers, in the order of the entities' ids
  Label, File, Status,\* of each entity: its type, its path, what calls it
  Edges,              \* [from, to, type] between entities
  ServerGraphs,       \* the sets of entities the server may hold
  LiveCapabilities,   \* what a live server offers
  Step, MaxBudget,    \* GRAPH_NODE_BUDGET_STEP and GRAPH_NODE_BUDGET_MAX
  Drafts,             \* what the user may type for a budget, None for no number
  MaxSaved,           \* bound on the projects whose budget is saved
  MaxFlight,          \* bound on the requests under way
  MaxStray,           \* bound on the filters that differ from "all"
  Skeleton,           \* the one node of the missed graph
  Failed,             \* a request the server refused or the network lost
  None

DefaultBudget == MaxBudget
Budgets == {k * Step : k \in 1 .. MaxBudget \div Step}
StatusFilters == {"only_dead", "hide_entry", "hide_tests"}
Labels == {Label[e] : e \in Entities}
Types == {edge.type : edge \in Edges}

\* A path is the sequence of its parts, and empty for an entity without a file.
ASSUMPTION GraphTabConstants ==
  /\ Entities \subseteq Nat /\ IsFiniteSet(Entities)
  /\ DOMAIN Label = Entities /\ DOMAIN Status = Entities
  /\ \A e \in Entities : File[e] = <<>> \/ Len(File[e]) > 0
  /\ Edges \subseteq [from : Entities, to : Entities, type : {edge.type : edge \in Edges}]
  /\ ServerGraphs \subseteq SUBSET Entities /\ ServerGraphs # {}
  /\ Step \in Nat \ {0} /\ MaxBudget \in Nat /\ MaxBudget >= Step /\ MaxBudget % Step = 0
  /\ Drafts \subseteq Int \union {None} /\ None \notin Int
  /\ MaxFlight \in Nat \ {0, 1} /\ MaxStray \in Nat /\ MaxSaved \in Nat
  /\ None \notin Projects /\ "snapshot" \notin Projects /\ Skeleton \notin Entities

VARIABLES
  mode,         \* "live" or "static"
  saved,        \* the budgets in localStorage
  mounted, project,
  budget,       \* the budget of the tab, and the project it belongs to
  flight,       \* the layout requests under way, the oldest first
  loading, failed,
  data,         \* the layout shown
  labels, types, statuses, missed,   \* the filters
  selected,     \* the node of the detail panel
  highlighted,  \* the render ids that are highlighted, None for all alike
  path,         \* whether the sidebar marks a path
  manner,       \* history: how the last requests started
  unstored,     \* history: the budget localStorage refused since one was last read
  refused       \* history: whether the last request that ended was refused

requestVars == <<flight, loading, failed, refused, manner>>
filterVars == <<labels, types, statuses, missed>>
selectionVars == <<selected, highlighted, path>>
vars == <<mode, saved, mounted, project, budget, unstored, requestVars, data, filterVars,
          selectionVars>>

-----------------------------------------------------------------------------
(* Layouts *)

Capabilities == IF mode = "static" THEN {} ELSE LiveCapabilities

RenderId(nodes, e) == Cardinality({x \in nodes : x < e})
Ids(nodes) == {RenderId(nodes, e) : e \in nodes}

EdgesAmong(nodes) == {edge \in Edges : edge.from \in nodes /\ edge.to \in nodes}

\* The first entities of a graph.
Cut(graph, limit) == {e \in graph : RenderId(graph, e) < limit}

\* A live server counts its entities, takes the first of them, and then the edges
\* that join two of those: three statements without a transaction, the graph another
\* one before each.  torn is history: what was counted is not what was cut.
Layout(limit, counted, chosen, joined) ==
  LET nodes == Cut(chosen, limit) IN
  [nodes |-> nodes, edges |-> EdgesAmong(nodes \intersect joined),
   total |-> Cardinality(counted), torn |-> counted # chosen]

\* A snapshot is packaged whole.
Snapshot(graph) ==
  [nodes |-> graph, edges |-> EdgesAmong(graph), total |-> Cardinality(graph), torn |-> FALSE]

Outcomes(limit) ==
  {Failed} \union
    IF mode = "static" THEN {Snapshot(graph) : graph \in ServerGraphs}
    ELSE {Layout(limit, counted, chosen, joined) : counted, chosen, joined \in ServerGraphs}

\* The satellite of files that were missed comes with every layout.
HasSkeleton(d) == d # None /\ "missed_graph" \in Capabilities

\* Shown when the server has more than it sent.
LimitNotice(d) == d # None /\ d.total > Cardinality(d.nodes)

StatusOk(e) ==
  /\ "only_dead" \in statuses => Status[e] = "dead"
  /\ "hide_entry" \in statuses => Status[e] # "entry"
  /\ "hide_tests" \in statuses => Status[e] # "test"

FilteredNodes == {e \in data.nodes : Label[e] \in labels /\ StatusOk(e)}
FilteredEdges ==
  {edge \in data.edges : edge.type \in types /\ {edge.from, edge.to} \subseteq FilteredNodes}

-----------------------------------------------------------------------------
(* Budgets *)

\* Rounded to a step, halves upwards, then kept within the bounds.
Stepped(draft) == ((2 * draft + Step) \div (2 * Step)) * Step
ClampNodeBudget(draft) ==
  IF draft = None THEN DefaultBudget
  ELSE IF Stepped(draft) < Step THEN Step
  ELSE IF Stepped(draft) > MaxBudget THEN MaxBudget
  ELSE Stepped(draft)

ProjectKey(p) == IF mode = "static" /\ p = None THEN "snapshot" ELSE p
LoadNodeBudget(key) == IF saved[key] = None THEN DefaultBudget ELSE saved[key]

-----------------------------------------------------------------------------
(* Requests *)

\* A request starts: fetchOverview, once for each limit.
Start(limits) ==
  /\ Len(flight) + Len(limits) <= MaxFlight
  /\ flight' = flight \o [i \in DOMAIN limits |-> [limit |-> limits[i], answer |-> None]]
  /\ loading' = TRUE /\ failed' = FALSE /\ refused' = FALSE

Fetch(limits) ==
  /\ Start(limits)
  /\ manner' = IF flight # <<>> \/ Len(limits) > 1 THEN "overlap" ELSE "clean"

Unhighlight == highlighted' = None /\ path' = FALSE

\* The head of an answer arrives.
Answer(i) ==
  /\ flight[i].answer = None
  /\ \E answer \in Outcomes(flight[i].limit) : flight' = [flight EXCEPT ![i].answer = answer]
  /\ UNCHANGED <<mode, saved, mounted, project, budget, unstored, loading, failed, refused,
                 manner, data, filterVars, selectionVars>>

Without(s, i) == SubSeq(s, 1, i - 1) \o SubSeq(s, i + 1, Len(s))

EnableEverything(d) ==
  /\ labels' = {Label[e] : e \in d.nodes}
  /\ types' = {edge.type : edge \in d.edges}
  /\ UNCHANGED <<statuses, missed>>

\* Its body has arrived: the filters are set anew for the new data.  A success
\* leaves the error of another request.
Settle(i, dataOnFailure) ==
  /\ flight[i].answer # None
  /\ flight' = Without(flight, i)
  /\ refused' = (flight[i].answer = Failed)
  /\ IF refused'
     THEN failed' = TRUE /\ data' = dataOnFailure /\ UNCHANGED filterVars
     ELSE data' = flight[i].answer /\ EnableEverything(data') /\ UNCHANGED failed
  /\ loading' = FALSE
  /\ UNCHANGED <<mode, saved, mounted, project, budget, unstored, manner, selectionVars>>

\* A failure that clears what was shown.
DeliverForgetful(i) == Settle(i, None)

\* Either ends the loader; a failure leaves the data.
Deliver(i) == Settle(i, data)

-----------------------------------------------------------------------------
(* The tab appears, changes its project, disappears *)

Mount(p) ==
  /\ ~mounted
  /\ mounted' = TRUE /\ project' = p
  /\ IF ProjectKey(p) = None
     THEN budget' = [project |-> None, value |-> DefaultBudget] /\ UNCHANGED requestVars
     ELSE /\ budget' = [project |-> ProjectKey(p), value |-> LoadNodeBudget(ProjectKey(p))]
          /\ Fetch(<<budget'.value>>)
  /\ UNCHANGED <<mode, saved, unstored, data, filterVars, selectionVars>>

\* The budget of the project that is left is kept.
KeepBudget(p) ==
  /\ mounted /\ p # project /\ project' = p
  /\ IF ProjectKey(p) = None
     THEN UNCHANGED <<budget, unstored, requestVars, selectionVars>>
     ELSE /\ budget' = [project |-> ProjectKey(p), value |-> budget.value]
          /\ Fetch(<<budget'.value>>)
          /\ unstored' = None /\ Unhighlight /\ UNCHANGED selected
  /\ UNCHANGED <<mode, saved, mounted, data, filterVars>>

\* The budget is read again, and its change fetches.  Back at the project whose
\* budget the tab still has, the change of project fetches too.
ChangeProject(p) ==
  /\ mounted /\ p # project /\ project' = p
  /\ IF ProjectKey(p) = None
     THEN UNCHANGED <<budget, unstored, requestVars, selectionVars>>
     ELSE /\ budget' = [project |-> ProjectKey(p), value |-> LoadNodeBudget(ProjectKey(p))]
          /\ Fetch(IF budget.project = ProjectKey(p)
                   THEN <<budget.value, budget'.value>> ELSE <<budget'.value>>)
          /\ unstored' = None /\ Unhighlight /\ UNCHANGED selected
  /\ UNCHANGED <<mode, saved, mounted, data, filterVars>>

Unmount ==
  /\ mounted /\ mounted' = FALSE /\ project' = None
  /\ budget' = [project |-> None, value |-> DefaultBudget]
  /\ flight' = <<>> /\ loading' = FALSE /\ failed' = FALSE /\ manner' = "clean"
  /\ data' = None /\ refused' = FALSE
  /\ labels' = {} /\ types' = {} /\ statuses' = {} /\ missed' = FALSE
  /\ selected' = None /\ Unhighlight /\ unstored' = None
  /\ UNCHANGED <<mode, saved>>

-----------------------------------------------------------------------------
(* What the user sees and does *)

Screen ==
  IF ProjectKey(project) = None THEN "select"
  ELSE IF loading THEN "loader"
  ELSE IF failed THEN "error"
  ELSE IF data = None \/ data.nodes = {} THEN "empty"
  ELSE "graph"

OnGraph == mounted /\ Screen = "graph"
Drawn == OnGraph /\ FilteredNodes # {}

\* The loader's words: whether a layout is being received.
Receiving ==
  Screen = "loader" /\ \E i \in DOMAIN flight : flight[i].answer \notin {None, Failed}

UserStays == UNCHANGED <<mode, mounted, project, data>>
NoFetch == UNCHANGED <<saved, budget, unstored, requestVars>>

\* The field is left, or Enter is pressed in it.  localStorage may refuse the budget,
\* which is then used all the same.
CommitBudget(draft) ==
  LET value == ClampNodeBudget(draft) IN
  /\ Drawn /\ value # budget.value
  /\ \/ saved' = [saved EXCEPT ![ProjectKey(project)] = value] /\ unstored' = None
     \/ UNCHANGED saved /\ unstored' = value
  /\ Cardinality({key \in DOMAIN saved : saved'[key] # None}) <= MaxSaved
  /\ budget' = [project |-> ProjectKey(project), value |-> value]
  /\ Fetch(<<value>>)
  /\ Unhighlight /\ UNCHANGED <<selected, filterVars>>
  /\ UserStays

\* A refresh that leaves the selection alone.
RefreshOnly ==
  /\ Drawn
  /\ Fetch(<<budget.value>>)
  /\ UNCHANGED <<saved, budget, unstored, filterVars, selectionVars>>
  /\ UserStays

Refresh ==
  /\ Drawn
  /\ Fetch(<<budget.value>>)
  /\ Unhighlight /\ selected' = None
  /\ UNCHANGED <<saved, budget, unstored, filterVars>>
  /\ UserStays

\* The button on the error screen asks without a budget, that is, for the most.
Retry ==
  /\ mounted /\ Screen = "error"
  /\ Start(<<DefaultBudget>>)
  /\ manner' = IF flight # <<>> THEN "overlap" ELSE IF manner = "clean" THEN "retry" ELSE manner
  /\ UNCHANGED <<saved, budget, unstored, filterVars, selectionVars>>
  /\ UserStays

Adjacent(edges, e) == {x \in Entities : \E edge \in edges : {edge.from, edge.to} = {e, x}}

\* A node of the galaxy is clicked, in the scene or in the panel's list.
HandleNodeClick(e) ==
  /\ OnGraph /\ e \in FilteredNodes
  /\ Drawn
  /\ selected' = [id |-> RenderId(data.nodes, e), entity |-> e]
  /\ highlighted' = {RenderId(data.nodes, x) : x \in {e} \union Adjacent(FilteredEdges, e)}
  /\ path' = (File[e] # <<>>)
  /\ NoFetch /\ UNCHANGED filterVars /\ UserStays

\* A node of the skeleton is clicked: no highlight.
HandleSkeletonClick ==
  /\ Drawn /\ missed /\ HasSkeleton(data)
  /\ selected' = [id |-> Skeleton, entity |-> Skeleton]
  /\ highlighted' = None /\ path' = TRUE
  /\ NoFetch /\ UNCHANGED filterVars /\ UserStays

\* Empty space is clicked: only a selected skeleton is left.
HandleBackgroundClick ==
  /\ Drawn /\ HasSkeleton(data)
  /\ selected # None /\ selected.id = Skeleton
  /\ selected' = None /\ Unhighlight
  /\ NoFetch /\ UNCHANGED filterVars /\ UserStays

\* The folders of the sidebar: a directory is merged into its only child when no
\* file lies in it directly.  A file outside every folder is in none.
Directory(e) == SubSeq(File[e], 1, Len(File[e]) - 1)
InFolder(e, d) == Len(d) <= Len(Directory(e)) /\ SubSeq(File[e], 1, Len(d)) = d
Directories ==
  UNION {{SubSeq(File[e], 1, n) : n \in 1 .. Len(File[e]) - 1} : e \in FilteredNodes}
Subdirectories(d) == {s \in Directories : Len(s) = Len(d) + 1 /\ SubSeq(s, 1, Len(d)) = d}
Folders ==
  {d \in Directories : \/ \E e \in FilteredNodes : File[e] # <<>> /\ Directory(e) = d
                       \/ Cardinality(Subdirectories(d)) # 1}

Highlight(nodes) ==
  /\ highlighted' = {RenderId(data.nodes, e) : e \in nodes}
  /\ path' = TRUE

\* A folder, a node in a folder, or a found node is picked in the sidebar; a
\* found node without a file counts as nothing.
HandleSelectPath ==
  /\ OnGraph
  /\ \/ \E d \in Folders : Highlight({e \in FilteredNodes : InFolder(e, d)})
     \/ \E e \in FilteredNodes : IF File[e] = <<>> THEN Unhighlight ELSE Highlight({e})
     \/ path /\ Unhighlight
  /\ UNCHANGED selected
  /\ NoFetch /\ UNCHANGED filterVars /\ UserStays

ClosePanel ==
  /\ OnGraph /\ selected # None
  /\ selected' = None /\ Unhighlight
  /\ NoFetch /\ UNCHANGED filterVars /\ UserStays

ClearSelection ==
  /\ Drawn /\ highlighted # None
  /\ selected' = None /\ Unhighlight
  /\ NoFetch /\ UNCHANGED filterVars /\ UserStays

-----------------------------------------------------------------------------
(* The filter panel *)

Flip(set, x) == IF x \in set THEN set \ {x} ELSE set \union {x}

\* A row for each label and type of the data, whether or not it is enabled.
LabelRows == {Label[e] : e \in data.nodes}
TypeRows == {edge.type : edge \in data.edges}
Stray(ls, ts, ss) ==
  Cardinality(LabelRows \ ls) + Cardinality(TypeRows \ ts) + Cardinality(ss)

ToggleFilter ==
  /\ OnGraph
  /\ \/ \E l \in LabelRows : labels' = Flip(labels, l) /\ UNCHANGED <<types, statuses, missed>>
     \/ \E t \in TypeRows : types' = Flip(types, t) /\ UNCHANGED <<labels, statuses, missed>>
     \/ /\ "dead_code" \in Capabilities
        /\ \E s \in StatusFilters : statuses' = Flip(statuses, s)
        /\ UNCHANGED <<labels, types, missed>>
     \/ "missed_graph" \in Capabilities /\ missed' = ~missed /\ UNCHANGED <<labels, types, statuses>>
  /\ Stray(labels', types', statuses') <= MaxStray
  /\ NoFetch /\ UNCHANGED selectionVars /\ UserStays

\* "All", and "Reset Filters" where nothing is left to draw.
EnableAll ==
  /\ OnGraph /\ EnableEverything(data)
  /\ NoFetch /\ UNCHANGED selectionVars /\ UserStays

DisableAll ==
  /\ OnGraph /\ labels' = {} /\ types' = {} /\ UNCHANGED <<statuses, missed>>
  /\ NoFetch /\ UNCHANGED selectionVars /\ UserStays

-----------------------------------------------------------------------------
Init ==
  /\ mode \in {"live", "static"}
  /\ saved = [key \in Projects \union {"snapshot"} |-> None]
  /\ mounted = FALSE /\ project = None
  /\ budget = [project |-> None, value |-> DefaultBudget] /\ unstored = None
  /\ flight = <<>> /\ loading = FALSE /\ failed = FALSE /\ manner = "clean"
  /\ data = None /\ refused = FALSE
  /\ labels = {} /\ types = {} /\ statuses = {} /\ missed = FALSE
  /\ selected = None /\ highlighted = None /\ path = FALSE

Next ==
  \/ \E p \in Projects \union {None} : Mount(p) \/ ChangeProject(p)
  \/ Unmount
  \/ \E i \in DOMAIN flight : Answer(i) \/ Deliver(i)
  \/ \E draft \in Drafts : CommitBudget(draft)
  \/ Refresh \/ Retry
  \/ \E e \in Entities : HandleNodeClick(e)
  \/ HandleSkeletonClick \/ HandleBackgroundClick
  \/ HandleSelectPath \/ ClosePanel \/ ClearSelection
  \/ ToggleFilter \/ EnableAll \/ DisableAll

Spec == Init /\ [][Next]_vars

-----------------------------------------------------------------------------
(* Properties *)

Layouts ==
  {d \in [nodes : SUBSET Entities, edges : SUBSET Edges, total : 0 .. Cardinality(Entities),
          torn : BOOLEAN] : d.edges \subseteq EdgesAmong(d.nodes)}

\* Everything holds values of its kind, and a tab that is not mounted has no
\* state (GraphTab.tsx:70-125, useGraphData.ts:101-105).
TypeOK ==
  /\ mode \in {"live", "static"}
  /\ saved \in [Projects \union {"snapshot"} -> Budgets \union {None}]
  /\ mounted \in BOOLEAN /\ project \in Projects \union {None}
  /\ budget.project \in Projects \union {"snapshot", None} /\ budget.value \in Budgets
  /\ unstored \in Budgets \union {None}
  /\ Len(flight) <= MaxFlight
  /\ \A i \in DOMAIN flight :
       flight[i].limit \in Budgets /\ flight[i].answer \in Layouts \union {Failed, None}
  /\ {loading, failed, refused, missed, path} \subseteq BOOLEAN
  /\ manner \in {"clean", "retry", "overlap"}
  /\ data \in Layouts \union {None}
  /\ labels \subseteq Labels /\ types \subseteq Types /\ statuses \subseteq StatusFilters
  /\ selected # None => selected.id \in Nat \union {Skeleton} /\ selected.entity \in Entities \union {Skeleton}
  /\ highlighted # None => highlighted \subseteq Nat
  /\ ~mounted => flight = <<>> /\ ~loading /\ data = None /\ selected = None

\* When the requests did not overlap and the last one has ended, the loader is
\* gone; the tab shows an error just if that request was refused; its graph is
\* one the server held cut at the budget the tab shows, unless it was asked for by
\* Retry, and the notice then says so, unless the server's graph changed between the
\* count and the cut; and the highlights are nodes of it (GraphTab.tsx:64-67,
\* 192-208, 540-549, useGraphData.ts:107-122, api.py:127-139).
SettlesOnAnswer ==
  mounted /\ flight = <<>> /\ manner # "overlap" =>
    /\ ~loading
    /\ failed <=> refused
    /\ manner = "clean" /\ mode = "live" /\ ~failed /\ data # None =>
         /\ data.nodes \in {Cut(graph, budget.value) : graph \in ServerGraphs}
         /\ ~data.torn =>
              Cardinality(data.nodes) = IF LimitNotice(data) THEN budget.value ELSE data.total
    /\ highlighted # None => highlighted \subseteq Ids(data.nodes)

\* Through every change of project and every reload of the tab, its budget is the one
\* persisted for the project it shows, or else the one that localStorage refused to
\* persist since the tab came to that project: none of another project
\* (GraphTab.tsx:44-57, 95-109, 191-198, "switching projects re-reads the persisted
\* value").
BudgetOfProject ==
  mounted /\ ProjectKey(project) # None =>
    budget = [project |-> ProjectKey(project),
              value |-> IF unstored = None THEN LoadNodeBudget(ProjectKey(project)) ELSE unstored]

\* "Preserve the last valid graph when a layout refresh fails"
\* (docs/superpowers/specs/2026-08-02-cbm-3d-graph-ui-design.md:119): while the
\* tab is mounted its graph gives way only to another graph, and a failure never
\* changes it (useGraphData.ts:107-122).
KeepsLastGraph ==
  [][mounted /\ mounted' =>
       /\ data # None => data' # None
       /\ failed' /\ ~failed => data' = data]_vars
================================================================================
