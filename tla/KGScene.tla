-------------------------------- MODULE KGScene --------------------------------
(***************************************************************************)
(* The scene of the graph area (GraphScene.tsx, ErrorBoundary.tsx) and the  *)
(* settings around it that outlive the tab: the display settings            *)
(* (density.ts, DisplaySettingsMenu.tsx) and the widths of the two panels   *)
(* (ResizeHandle.tsx, GraphTab.tsx).                                       *)
(*                                                                         *)
(* The scene is a child of the tab: it has its camera, what it hovers and   *)
(* whether it turns for itself, and loses them when it disappears.  A drag  *)
(* of a panel's edge goes on until the pointer is released over it.         *)
(***************************************************************************)
EXTENDS KGDrawing

CONSTANTS
  FlightFrames,     \* the frames of a flight of the camera
  Slides,           \* the values the sliders are set to
  Moves             \* by how much a drag moves a handle away from its panel

\* Multipliers and pixels are counted in thousandths.

VARIABLES
  crashed,          \* the error boundary shows its error
  hovered,
  flight,           \* the animator: its target, and the frames since it got it
  idle, spinning,   \* no pointer for a minute; autoRotate
  settings,         \* what the tab uses
  stored,           \* localStorage
  refused,          \* history: the settings it refused since they were last stored or read
  dragging,         \* the handle that is dragged, None for none
  menu              \* the display menu is open

sceneVars == <<crashed, hovered, flight, idle, spinning>>
settingVars == <<settings, stored, refused, dragging, menu>>

-----------------------------------------------------------------------------
(* Settings *)

Sliders == {"edgeBrightness", "nodeGlow", "bloom"}
Widths == {"left", "right"}
Keys == Sliders \union Widths

Default ==
  [edgeBrightness |-> 1000, nodeGlow |-> 1000, bloom |-> 1000, left |-> 260000, right |-> 280000]
\* The limits of a slider and, for a width, those within which it is read.
Lowest == [edgeBrightness |-> 100, nodeGlow |-> 0, bloom |-> 0, left |-> 150000, right |-> 150000]
Highest ==
  [edgeBrightness |-> 3000, nodeGlow |-> 2000, bloom |-> 2000, left |-> 600000, right |-> 600000]
\* Those of a width as it is dragged.
Narrowest == [left |-> 150000, right |-> 200000]
Widest == 500000

ASSUMPTION SceneConstants ==
  /\ FlightFrames \in Nat \ {0} /\ Slides \subseteq Int /\ Moves \subseteq Int
  /\ None \notin Keys

Clamp(low, high, x) == AtMost(high, AtLeast(low, x))

ClampSetting(key, raw) == Clamp(Lowest[key], Highest[key], raw)

LoadDisplaySetting(key) ==
  IF stored[key] = None THEN Default[key] ELSE ClampSetting(key, stored[key])
LoadWidth(side) ==
  IF stored[side] = None THEN Default[side] ELSE Clamp(Lowest[side], Highest[side], stored[side])
LoadSettings ==
  [key \in Keys |-> IF key \in Sliders THEN LoadDisplaySetting(key) ELSE LoadWidth(key)]

\* A width is stored in whole pixels, halves upwards.
Rounded(width) == ((width + 500) \div 1000) * 1000
Kept(key, value) == IF key \in Sliders THEN value ELSE Rounded(value)

\* localStorage may refuse; what was set is used all the same.
Store(keys, values) ==
  \/ /\ stored' = [key \in Keys |-> IF key \in keys THEN Kept(key, values[key]) ELSE stored[key]]
     /\ refused' = refused \ keys
  \/ UNCHANGED stored /\ refused' = refused \union keys

\* The three are stored together.
SaveDisplaySettings(display) == Store(Sliders, display)
SaveWidth(side, width) == Store({side}, [settings EXCEPT ![side] = width])

\* The browser's input keeps within the limits of its row.
InRow(key, value) == Lowest[key] <= value /\ value <= Highest[key]

SetSlider(key, value) ==
  /\ menu
  /\ value # settings[key] /\ InRow(key, value)
  /\ settings' = [settings EXCEPT ![key] = value]
  /\ SaveDisplaySettings(settings')
  /\ UNCHANGED <<dragging, menu, sceneVars>>

IsDefault == \A key \in Sliders : settings[key] = Default[key]

ResetDisplay ==
  /\ menu /\ ~IsDefault
  /\ settings' = [key \in Keys |-> IF key \in Sliders THEN Default[key] ELSE settings[key]]
  /\ SaveDisplaySettings(settings')
  /\ UNCHANGED <<dragging, menu, sceneVars>>

\* The button, a click outside of the menu, Escape.
ToggleMenu == menu' = ~menu /\ UNCHANGED <<settings, stored, refused, dragging, sceneVars>>

GrabHandle(side) ==
  /\ dragging = None /\ dragging' = side
  /\ UNCHANGED <<settings, stored, refused, menu, sceneVars>>

\* A handle that stores where the pointer is.
DragUnclamped(delta) ==
  /\ dragging # None
  /\ LET width == settings[dragging] + delta IN
     /\ settings' = [settings EXCEPT ![dragging] = Clamp(Narrowest[dragging], Widest, width)]
     /\ SaveWidth(dragging, width)
  /\ UNCHANGED <<dragging, menu, sceneVars>>

\* Each handle keeps within limits of its own, and stores where it was moved, while
\* the panel is as wide as a fraction of a pixel says.
DragHandle(delta) ==
  /\ dragging # None
  /\ LET width == Clamp(Narrowest[dragging], Widest, settings[dragging] + delta) IN
     /\ settings' = [settings EXCEPT ![dragging] = width]
     /\ SaveWidth(dragging, width)
  /\ UNCHANGED <<dragging, menu, sceneVars>>

ReleaseHandle ==
  /\ dragging # None /\ dragging' = None
  /\ UNCHANGED <<settings, stored, refused, menu, sceneVars>>

-----------------------------------------------------------------------------
(* The scene *)

NoFlight == [target |-> None, frames |-> 0]
Landed == flight = NoFlight

\* The tab hands a target to the animator, which starts again when it is a new
\* one.  Without a target it goes on with the last.
Aim(target) ==
  flight' = IF target = None THEN flight ELSE [target |-> target, frames |-> 0]
Frame ==
  /\ ~crashed
  /\ \/ /\ ~Landed /\ spinning' = idle
        /\ flight' = IF flight.frames + 1 = FlightFrames THEN NoFlight
                     ELSE [flight EXCEPT !.frames = @ + 1]
     \/ Landed /\ spinning # idle /\ spinning' = idle /\ UNCHANGED flight
  /\ UNCHANGED <<crashed, hovered, idle, settingVars>>

\* A minute passes without the pointer or the wheel on the canvas.
Idle ==
  /\ ~crashed /\ ~idle /\ idle' = TRUE
  /\ UNCHANGED <<crashed, hovered, flight, spinning, settingVars>>

\* Any press on the canvas stops the turning at once.
Touch == idle' = FALSE /\ spinning' = FALSE

Hover(n) ==
  /\ ~crashed /\ hovered' = n
  /\ UNCHANGED <<crashed, flight, idle, spinning, settingVars>>

\* The boundary replaces the scene by the error; Retry makes a new scene.
NewScene(target) ==
  /\ hovered' = None /\ idle' = FALSE /\ spinning' = FALSE
  /\ flight' = IF target = None THEN NoFlight ELSE [target |-> target, frames |-> 0]

Crash ==
  /\ ~crashed /\ crashed' = TRUE
  /\ NewScene(None) /\ UNCHANGED settingVars

RetryRendering(target) ==
  /\ crashed /\ crashed' = FALSE
  /\ NewScene(target) /\ UNCHANGED settingVars

-----------------------------------------------------------------------------
(* What is seen *)

NodeBoost(nodes) == Scaled(NodeBoostScale(Cardinality(nodes)), settings.nodeGlow)
BloomIntensity(nodes) ==
  Scaled(Scaled(1450, BloomIntensityScale(Cardinality(nodes))), settings.bloom)

Strength(n, color, nodes, highlighted) == NodeStrength(n, color, highlighted, NodeBoost(nodes))
Brightness(edge, edges, highlighted) ==
  EdgeStrength(edge, Cardinality(edges), highlighted, settings.edgeBrightness)

SceneInit ==
  /\ crashed = FALSE /\ hovered = None /\ flight = NoFlight /\ idle = FALSE /\ spinning = FALSE
  /\ settings = Default /\ stored = [key \in Keys |-> None] /\ refused = {}
  /\ dragging = None /\ menu = FALSE

SceneTypeOK ==
  /\ hovered \in Nodes \union {None}
  /\ flight.frames \in 0 .. FlightFrames - 1
  /\ flight.target # None => flight.target \in [lookAt : Int, distance : Nat]
  /\ \A key \in Sliders : settings[key] \in Lowest[key] .. Highest[key]
  /\ \A side \in Widths : settings[side] \in Narrowest[side] .. Widest
  /\ refused \subseteq Keys
  /\ {crashed, idle, spinning, menu} \subseteq BOOLEAN /\ dragging \in Widths \union {None}
================================================================================
