------------------------------- MODULE KGDrawing -------------------------------
(***************************************************************************)
(* What the graph area draws (EdgeLines.tsx, NodeCloud.tsx, NodeLabels.tsx, *)
(* density.ts, NodeTooltip.tsx, colors.ts, and computeCameraTarget of       *)
(* GraphScene.tsx), as functions of the nodes and edges shown, of the       *)
(* highlighted ids and of the display settings.                            *)
(*                                                                         *)
(* Fractions are in thousandths.  A colour is kept as the factor that       *)
(* multiplies it, a place as a point of one axis: the three axes are         *)
(* treated alike.  Textures, opacity and the shapes of the meshes are left  *)
(* out, as are the edges between linked projects.                           *)
(***************************************************************************)
EXTENDS FiniteSetsExt, Integers, Sequences

CONSTANTS
  Nodes,            \* render ids, in the order of the layout
  Place, Size, Path, Status, Channels,  \* of each node; channels are those of its colour
  StatusColors,     \* the channels of each status
  Edges,            \* [source, target, type] between nodes
  EdgeReference,    \* EDGE_REFERENCE_COUNT
  NodeReference, NodeFadeEnd,
  PointThreshold,   \* POINT_MODE_THRESHOLD
  MaxLabels,
  None

ASSUMPTION DrawingConstants ==
  /\ Nodes \subseteq Nat /\ IsFiniteSet(Nodes) /\ None \notin Nodes /\ None \notin Int
  /\ IsFiniteSet(Edges) /\ \A edge \in Edges : edge.source \in Nodes /\ edge.target \in Nodes
  /\ DOMAIN Path = Nodes /\ \A n \in Nodes : Len(Path[n]) \in Nat
ASSUMPTION LayoutConstants ==
  Place \in [Nodes -> Int] /\ Size \in [Nodes -> Nat \ {0}]
ASSUMPTION ColorConstants ==
  /\ LET Colors == [red : 0 .. 1000, green : 0 .. 1000, blue : 0 .. 1000]
     IN Channels \in [Nodes -> Colors] /\ StatusColors \in [DOMAIN StatusColors -> Colors]
  /\ DOMAIN Status = Nodes /\ "structural" \in DOMAIN StatusColors
ASSUMPTION DensityConstants ==
  /\ {EdgeReference, NodeReference, NodeFadeEnd, PointThreshold, MaxLabels} \subseteq Nat \ {0}
  /\ NodeReference < NodeFadeEnd

AtMost(bound, x) == IF x > bound THEN bound ELSE x
AtLeast(bound, x) == IF x < bound THEN bound ELSE x
Scaled(x, factor) == (x * factor) \div 1000

-----------------------------------------------------------------------------
(* Density *)

\* One over the square root of how often the count exceeds the reference, for
\* each count of edges.
EdgeIntensityScale ==
  [count \in 0 .. Cardinality(Edges) |->
     IF count <= EdgeReference THEN 1000
     ELSE LET squared == AtLeast(2500, (1000 * 1000 * EdgeReference) \div count)
          IN CHOOSE root \in 50 .. 1000 : root * root <= squared /\ (root + 1) * (root + 1) > squared]

FadeFactor(count) ==
  IF count <= NodeReference THEN 0
  ELSE AtMost(1000, (1000 * (count - NodeReference)) \div (NodeFadeEnd - NodeReference))

BloomIntensityScale(count) == 1000 - Scaled(FadeFactor(count), 300)
NodeBoostScale(count) == 1000 - Scaled(FadeFactor(count), 200)

\* By how much one channel exceeds the two others.
Dominance(channel, other, another) == AtLeast(0, channel - AtLeast(other, another))

NodeGlowBoost(c) ==
  1350 + Scaled(Dominance(c.blue, c.red, c.green), 2400)
       + Scaled(Dominance(c.red, c.green, c.blue), 900)

-----------------------------------------------------------------------------
(* Nodes *)

\* An empty highlight is none.
HasHighlight(highlighted) == highlighted # None /\ highlighted # {}
Lit(highlighted, n) == HasHighlight(highlighted) => n \in highlighted

\* A status that is not known is coloured like a structural node.
ColorForStatus(status) ==
  StatusColors[IF status \in DOMAIN StatusColors THEN status ELSE "structural"]

\* The colour of a node, in the view by status and in the other.
Painted(n, byStatus) == IF byStatus THEN ColorForStatus(Status[n]) ELSE Channels[n]

\* A glow that also scales the base colour of the nodes that are lit.
NodeStrengthUnbased(n, color, highlighted, boost) ==
  IF Lit(highlighted, n) THEN Scaled(NodeGlowBoost(color), boost) ELSE 150

\* The factor of a node's colour.
NodeStrength(n, color, highlighted, boost) ==
  IF Lit(highlighted, n) THEN 1000 + Scaled(NodeGlowBoost(color) - 1000, boost) ELSE 150

PointMode(count) == count > PointThreshold

\* Points are all of the same size.
NodeScale(n, highlighted, count) ==
  IF PointMode(count) THEN 4000
  ELSE Size[n] * (IF Lit(highlighted, n) THEN 500 ELSE 200)

-----------------------------------------------------------------------------
(* Edges *)

\* Both ends are shown, and one of them is lit.
DrawnEdges(nodes, edges, highlighted) ==
  {edge \in edges : /\ edge.source \in nodes /\ edge.target \in nodes
                    /\ Lit(highlighted, edge.source) \/ Lit(highlighted, edge.target)}

\* The first two parts of the path.
ClusterKey(n) == SubSeq(Path[n], 1, AtMost(2, Len(Path[n])))

\* The selection is never scaled.
EdgeStrength(edge, count, highlighted, brightness) ==
  LET scale == Scaled(EdgeIntensityScale[count], brightness) IN
  IF HasHighlight(highlighted)
  THEN IF edge.source \in highlighted /\ edge.target \in highlighted THEN 500 ELSE Scaled(scale, 40)
  ELSE Scaled(scale, IF ClusterKey(edge.source) = ClusterKey(edge.target) THEN 250 ELSE 60)

-----------------------------------------------------------------------------
(* Labels and the tooltip *)

\* The order of labels: the largest first, equals in the order of the layout.
Outranks(m, n) == Size[m] > Size[n] \/ (Size[m] = Size[n] /\ m < n)

Labelled(nodes, highlighted) ==
  LET candidates == {n \in nodes : Lit(highlighted, n)} IN
  {n \in candidates : Cardinality({m \in candidates : Outranks(m, n)}) < MaxLabels}

\* A label is cut to the longest beginning that fits with its dots, and is never
\* empty; the lengths are those of the text, of its widest form and of the dots.
FitText(length, widest, dots) ==
  IF length <= widest THEN length
  ELSE AtLeast(1, widest - dots) + dots

-----------------------------------------------------------------------------
(* The camera *)

Centre(nodes) == MapThenSumSet(LAMBDA n : Place[n], nodes) \div Cardinality(nodes)
Spread(nodes) ==
  Max({AtLeast(Place[n] - Centre(nodes), Centre(nodes) - Place[n]) : n \in nodes})

\* Where the camera flies to see these of the nodes, None when none is shown.
ComputeCameraTarget(nodes, ids) ==
  LET framed == nodes \intersect ids IN
  IF framed = {} THEN None
  ELSE [lookAt |-> Centre(framed),
        distance |-> AtLeast(IF Cardinality(framed) <= 5 THEN 300 ELSE 200, 3 * Spread(framed))]
================================================================================
