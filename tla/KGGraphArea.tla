------------------------------ MODULE KGGraphArea ------------------------------
(***************************************************************************)
(* The graph area of the graph tab (GraphTab.tsx): the scene and the panel  *)
(* beside it, and what they do to one another.  A node clicked in the scene *)
(* or in the panel's list is selected, its neighbourhood highlighted and    *)
(* framed by the camera; the filters change what is drawn under both; while *)
(* a layout is loading neither is there.                                   *)
(*                                                                         *)
(* Layouts come and are filtered as sets of nodes (KGGraphTab has the       *)
(* requests and the filters themselves), each with the entities its nodes   *)
(* stand for.                                                              *)
(***************************************************************************)
EXTENDS KGScene, KGNodePanel

CONSTANTS
  Layouts,          \* the sets of nodes a layout may bring
  Numberings,       \* the entities its nodes may stand for
  Hidings,          \* the sets of nodes the filters may hide
  DeadCode,         \* whether the server offers statuses
  Paths,            \* the sets of nodes the sidebar's rows stand for
  MaxBusy           \* bound on what goes on at a time

ASSUMPTION AreaConstants ==
  /\ Layouts \subseteq SUBSET (Nodes \ Skeletons) /\ {} \notin Layouts
  /\ Numberings \subseteq [Nodes -> Entities] /\ Numberings # {}
  /\ Paths \subseteq SUBSET (Nodes \ Skeletons)
  /\ {} \in Hidings /\ MaxBusy \in Nat /\ DeadCode \in BOOLEAN

VARIABLES
  screen,           \* "loader" or "graph"
  data, hidden,     \* the layout, and what the filters hide of it
  numbering,        \* the entities its nodes stand for
  ghost,            \* whether the skeleton of the missed files is shown
  views,            \* whether names are shown, and nodes coloured by status
  highlighted,      \* the highlighted ids, None for all alike
  target            \* the tab's cameraTarget

areaVars == <<screen, data, numbering, hidden, ghost, views, highlighted, target>>
vars == <<areaVars, sceneVars, settingVars, panelVars>>

Drawn == data \ hidden
DrawnAmong == {edge \in Edges : edge.source \in Drawn /\ edge.target \in Drawn}
Shown == Drawn \union (IF ghost THEN Skeletons ELSE {})

DefaultViews == {"labels"} \union (IF DeadCode THEN {"status"} ELSE {})

\* Where everything has been filtered out there is a message instead of the
\* scene, while the panel stays.
SceneShown == screen = "graph" /\ Drawn # {}
PanelShown == screen = "graph" /\ selected # None

AimAt(where) ==
  /\ target' = where
  /\ IF crashed THEN UNCHANGED flight ELSE Aim(where)

\* The handle of the panel goes with it.
WithoutPanel ==
  /\ Select(None, None) /\ highlighted' = None
  /\ dragging' = IF dragging = "right" THEN None ELSE dragging
  /\ UNCHANGED <<settings, stored, refused, menu>>

Overview(nodes) == ComputeCameraTarget(nodes \union Skeletons, nodes \union Skeletons)

-----------------------------------------------------------------------------
(* What the user does in the scene, in the panel and in the sidebar *)

Neighbours(n) == {x \in Nodes : \E edge \in DrawnAmong : {edge.source, edge.target} = {n, x}}

\* A node of the skeleton is framed together with all of it.
HandleNodeClick(n) ==
  /\ Select(n, numbering[n])
  /\ IF n \in Skeletons
     THEN highlighted' = None /\ AimAt(ComputeCameraTarget(Skeletons, Skeletons))
     ELSE highlighted' = {n} \union Neighbours(n) /\ AimAt(ComputeCameraTarget(Drawn, highlighted'))
  /\ UNCHANGED <<screen, data, numbering, hidden, ghost, views, crashed, hovered, settingVars>>

ClickNode(n) ==
  /\ SceneShown /\ ~crashed /\ n \in Shown
  /\ Touch /\ HandleNodeClick(n)

Navigate(n) ==
  /\ PanelShown /\ Kind(selected) = "detail" /\ n \in Listed(Drawn, DrawnAmong)
  /\ HandleNodeClick(n) /\ UNCHANGED <<idle, spinning>>

\* A click on nothing leaves the skeleton for the overview, and is otherwise a
\* touch of the canvas.
ClickBackground ==
  /\ SceneShown /\ ~crashed
  /\ Touch
  /\ IF selected \in Skeletons
     THEN WithoutPanel /\ AimAt(Overview(data))
     ELSE UNCHANGED <<panelVars, highlighted, target, flight, settingVars>>
  /\ UNCHANGED <<screen, data, numbering, hidden, ghost, views, crashed, hovered>>

\* A row of the sidebar; one picked again, or without nodes, ends the highlight.
SelectPath(ids) ==
  /\ screen = "graph"
  /\ highlighted' = IF ids = {} THEN None ELSE ids
  /\ AimAt(ComputeCameraTarget(Drawn, ids))
  /\ UNCHANGED <<screen, data, numbering, hidden, ghost, views, crashed, hovered, idle, spinning, settingVars,
                 panelVars>>

ClosePanel ==
  /\ PanelShown
  /\ WithoutPanel
  /\ UNCHANGED <<screen, data, numbering, hidden, ghost, views, target, sceneVars>>

ClearSelection ==
  /\ SceneShown /\ highlighted # None
  /\ WithoutPanel /\ AimAt(None)
  /\ UNCHANGED <<screen, data, numbering, hidden, ghost, views, crashed, hovered, idle, spinning>>

ToggleGhost ==
  /\ screen = "graph" /\ Skeletons # {} /\ ghost' = ~ghost
  /\ UNCHANGED <<screen, data, numbering, hidden, views, highlighted, target, sceneVars, settingVars,
                 panelVars>>

\* The switches for names and for the colours of statuses.
ToggleView(view) ==
  /\ screen = "graph"
  /\ view = "status" => DeadCode
  /\ views' = IF view \in views THEN views \ {view} ELSE views \union {view}
  /\ UNCHANGED <<screen, data, numbering, hidden, ghost, highlighted, target, sceneVars, settingVars,
                 panelVars>>

\* The filters: highlight and selection stay, also of what is no longer drawn,
\* and so does the tooltip.  The scene ends with its last node, its error too.
Filter(hiding) ==
  /\ screen = "graph" /\ hiding # hidden /\ hidden' = hiding
  /\ UNCHANGED <<screen, data, numbering, ghost, views, highlighted, target, settings, stored, refused, dragging,
                 panelVars>>
  /\ IF SceneShown' = SceneShown THEN UNCHANGED sceneVars
     ELSE NewScene(IF SceneShown' THEN target ELSE None) /\ crashed' = FALSE
  /\ menu' = (menu /\ SceneShown')

-----------------------------------------------------------------------------
(* Layouts come *)

\* Another budget keeps the selection; a refresh drops it.
Load(keep) ==
  /\ SceneShown
  /\ screen' = "loader"
  /\ highlighted' = None
  /\ target' = IF keep THEN target ELSE None
  /\ IF keep THEN UNCHANGED nodeVars ELSE selected' = None /\ subject' = None
  /\ NewPanel("none")
  /\ NewScene(None) /\ crashed' = FALSE /\ menu' = FALSE /\ dragging' = None
  /\ UNCHANGED <<data, numbering, hidden, ghost, views, settings, stored, refused>>

\* A skeleton comes with every layout, and both are framed.  The filters by kind
\* are set anew, those by status go on hiding what they hid.
Loaded ==
  /\ screen = "loader" /\ screen' = "graph"
  /\ data' \in Layouts /\ numbering' \in Numberings /\ hidden' \in {{}, hidden}
  /\ target' = IF Skeletons = {} THEN target ELSE Overview(data')
  /\ NewScene(IF SceneShown' THEN target' ELSE None)
  /\ NewPanel(Kind(selected))
  /\ UNCHANGED <<ghost, views, highlighted, nodeVars, crashed, settingVars>>

\* The tab is left and comes back: of all this it keeps what is stored.
Leave ==
  /\ screen = "graph"
  /\ screen' = "loader"
  /\ hidden' = {} /\ ghost' = FALSE /\ views' = DefaultViews /\ highlighted' = None /\ target' = None
  /\ selected' = None /\ subject' = None /\ NewPanel("none")
  /\ NewScene(None) /\ crashed' = FALSE /\ menu' = FALSE /\ dragging' = None
  /\ settings' = LoadSettings /\ refused' = {}
  /\ UNCHANGED <<data, numbering, stored>>

-----------------------------------------------------------------------------
(* What the scene, the settings and the panel do by themselves *)

SceneStep ==
  /\ SceneShown
  /\ \/ Frame \/ Idle \/ Crash \/ RetryRendering(target)
     \/ \E n \in Shown \union {None} : n # hovered /\ Hover(n)
  /\ UNCHANGED <<areaVars, panelVars>>

SettingStep ==
  /\ screen = "graph"
  /\ \/ /\ SceneShown
        /\ \/ \E key \in Sliders : \E value \in Slides : SetSlider(key, value)
           \/ ResetDisplay \/ ToggleMenu
     \/ GrabHandle("left") \/ (PanelShown /\ GrabHandle("right"))
     \/ \E delta \in Moves : DragHandle(delta)
     \/ ReleaseHandle
  /\ UNCHANGED <<areaVars, panelVars>>

PanelStep ==
  /\ \/ PanelShown /\ (LoadCode \/ HideCode \/ CopyPrompt)
     \/ \E i \in DOMAIN calls : AnswerCode(i) \/ DeliverCode(i)
     \/ AnswerIssues \/ CopyEnds \/ CopiedFades
  /\ UNCHANGED <<areaVars, sceneVars, settingVars>>

Init ==
  /\ screen = "loader" /\ data \in Layouts /\ numbering \in Numberings /\ hidden = {} /\ ghost = FALSE
  /\ views = DefaultViews
  /\ highlighted = None /\ target = None
  /\ SceneInit /\ PanelInit

\* What goes on besides the selection.
Concerns ==
  {<<"hover", hovered # None>>, <<"flight", ~Landed>>, <<"crash", crashed>>,
   <<"turn", idle \/ spinning>>, <<"view", views # DefaultViews>>,
   <<"menu", menu>>, <<"drag", dragging # None>>, <<"refused", refused # {}>>,
   <<"subject", selected # None /\ subject # numbering[selected]>>, <<"ghost", ghost>>,
   <<"code", calls # <<>> \/ code # None \/ codeError>>,
   <<"callout", copying # None \/ copied # None>>}
    \union {<<key, settings[key] # Default[key]>> : key \in Keys}
Busy == Cardinality({concern \in Concerns : concern[2]})

Next ==
  /\ \/ \E n \in Nodes : ClickNode(n) \/ Navigate(n)
     \/ ClickBackground
     \/ \E ids \in Paths : SelectPath(ids)
     \/ ClosePanel \/ ClearSelection \/ ToggleGhost
     \/ \E view \in {"labels", "status"} : ToggleView(view)
     \/ \E hiding \in Hidings : Filter(hiding)
     \/ \E keep \in BOOLEAN : Load(keep)
     \/ Loaded \/ Leave
     \/ SceneStep \/ SettingStep \/ PanelStep
  /\ Busy' <= MaxBusy

Spec == Init /\ [][Next]_vars

-----------------------------------------------------------------------------
(* Properties *)

\* Everything holds values of its kind; without a scene there is neither
\* tooltip, flight nor error, and without a panel nothing of it
\* (GraphTab.tsx:363-403, 454-476, 559-606).
TypeOK ==
  /\ SceneTypeOK /\ PanelTypeOK
  /\ screen \in {"loader", "graph"} /\ data \in Layouts /\ hidden \in Hidings
  /\ numbering \in Numberings
  /\ ghost \in BOOLEAN /\ views \subseteq {"labels", "status"}
  /\ highlighted # None => highlighted \subseteq Nodes \ Skeletons
  /\ ~SceneShown => hovered = None /\ Landed /\ ~crashed
  /\ ~PanelShown => calls = <<>> /\ code = None /\ copying = None /\ dragging # "right"

\* "A selection stays bright against the dimmed rest" (lib/density.ts:9-11,
\* NodeCloud.tsx:30-51, EdgeLines.tsx:102-104): whatever the density, the colours
\* and the display settings, each lit node outshines each node that is not, and
\* unless all are points is drawn larger than one of its own size; each edge within
\* the selection outshines each other edge; and only lit nodes are labelled.
SelectionStandsOut ==
  SceneShown /\ HasHighlight(highlighted) =>
    /\ LET strength(n) == Strength(n, Painted(n, "status" \in views), Drawn, highlighted)
           scale(n) == NodeScale(n, highlighted, Cardinality(Drawn))
       IN \A n \in Drawn \intersect highlighted : \A m \in Drawn \ highlighted :
            /\ strength(n) > strength(m)
            /\ PointMode(Cardinality(Drawn)) \/ Size[n] # Size[m] \/ scale(n) > scale(m)
    /\ LET seen == DrawnEdges(Drawn, DrawnAmong, highlighted)
           within == {edge \in seen : {edge.source, edge.target} \subseteq highlighted}
       IN \A inside \in within : \A other \in seen \ within :
            Brightness(inside, DrawnAmong, highlighted) > Brightness(other, DrawnAmong, highlighted)
    /\ "labels" \in views => Labelled(Drawn, highlighted) \subseteq highlighted

\* What the user sees of the settings is what the tab comes back with, a width to the
\* pixel, unless localStorage refused to store it; and whatever it refused, a panel
\* never comes back with a width no drag could have left
\* (density.ts:105-134, GraphTab.tsx:33-42, 87-92, 441-450, 561-570).
SettingsComeBack ==
  /\ \A key \in Keys \ refused : LoadSettings[key] = Kept(key, settings[key])
  /\ \A side \in Widths : LoadSettings[side] \in Narrowest[side] .. Widest

\* Once no request for code is under way the button is free; and unless the panel
\* moved to another node during one, or came to another entity under the number it
\* shows, the code shown is that of the selected entity ("Reset the fetched code
\* whenever the selected node changes.", NodeDetailPanel.tsx:66-91).
CodeSettles ==
  calls = <<>> =>
    /\ ~codeLoading
    /\ ~crossed /\ ~renumbered /\ code # None => code = subject
================================================================================
