--------------------------- MODULE KGGraphAreaProofs ---------------------------
(***************************************************************************)
(* What holds of the graph area for any nodes, edges, layouts and settings, *)
(* whatever the user does in it, and whatever order the answers come in.   *)
(***************************************************************************)
EXTENDS KGGraphArea, FiniteSetTheorems, SequenceTheorems, WellFoundedInduction, TLAPS

-----------------------------------------------------------------------------
(***************************************************************************)
(* The assumptions on the drawing, one by one.                             *)
(***************************************************************************)

Fractions == 0 .. 1000
Colors == [red : Fractions, green : Fractions, blue : Fractions]

LEMMA FiniteDrawing ==
  /\ Nodes \subseteq Nat /\ IsFiniteSet(Nodes) /\ IsFiniteSet(Edges)
  /\ None \notin Nodes /\ None \notin Int
BY DrawingConstants

LEMMA PlacesAndSizes ==
  /\ \A n \in Nodes : Place[n] \in Int
  /\ \A n \in Nodes : Size[n] \in Nat \ {0}
BY LayoutConstants

LEMMA Palette ==
  /\ Channels \in [Nodes -> Colors] /\ StatusColors \in [DOMAIN StatusColors -> Colors]
  /\ "structural" \in DOMAIN StatusColors
BY ColorConstants DEF Colors, Fractions

LEMMA Thresholds ==
  /\ EdgeReference \in Nat \ {0} /\ NodeReference \in Nat /\ NodeFadeEnd \in Nat
  /\ NodeReference < NodeFadeEnd
BY DensityConstants

-----------------------------------------------------------------------------
(***************************************************************************)
(* The inductive invariant.                                                *)
(***************************************************************************)

Targets == [lookAt : Int, distance : Nat] \union {None}

\* What TypeOK says of the scene, as the kinds its records are of, with the target
\* the tab will hand to the next one.
SceneInv ==
  /\ hovered \in Nodes \union {None}
  /\ flight \in [target : Targets, frames : 0 .. FlightFrames - 1]
  /\ target \in Targets
  /\ {crashed, idle, spinning} \subseteq BOOLEAN
  /\ ~SceneShown => hovered = None /\ Landed /\ ~crashed

Within(key, x) == x \in Int /\ Lowest[key] <= x /\ x <= Highest[key]

\* What the user can set and what can be stored: a width as a drag leaves it, and in
\* whole pixels when it is stored.
Settable(key, x) ==
  Within(key, x) /\ (key \in Widths => Narrowest[key] <= x /\ x <= Widest)
Storable(key, x) == Settable(key, x) /\ Kept(key, x) = x

\* What was stored last is what is kept of what is used; what was never stored has its
\* default.  Of what was refused only what may be stored is known.
SettingsInv ==
  /\ settings \in [Keys -> Int] /\ DOMAIN stored = Keys /\ refused \subseteq Keys
  /\ \A key \in Keys : Settable(key, settings[key])
  /\ \A key \in Keys : stored[key] # None => Storable(key, stored[key])
  /\ \A key \in Keys \ refused :
       IF stored[key] = None THEN settings[key] = Default[key]
       ELSE stored[key] = Kept(key, settings[key])
  /\ menu \in BOOLEAN /\ dragging \in Widths \union {None}
  /\ ~PanelShown => dragging # "right"

\* Requests for the code of these entities.
RequestsFor(entities) == [of : entities, answer : entities \union {Failed, None}]

\* The panel has stayed with one node and the node with one entity.
Steady == ~crossed /\ ~renumbered

\* A request is under way while the panel says so; and as long as the panel has stayed
\* with one entity during them, code and requests are of that entity.
PanelInv ==
  /\ PanelTypeOK
  /\ calls \in Seq(RequestsFor(Entities))
  /\ codeLoading => calls # <<>>
  /\ Steady => code \in {None, subject} /\ calls \in Seq(RequestsFor({subject}))
  /\ ~PanelShown => calls = <<>> /\ code = None /\ copying = None

DataInv ==
  /\ screen \in {"loader", "graph"} /\ data \in Layouts /\ hidden \in Hidings
  /\ numbering \in Numberings
  /\ ghost \in BOOLEAN /\ views \subseteq {"labels", "status"}
  /\ highlighted # None => highlighted \subseteq Nodes \ Skeletons

AreaInv == SceneInv /\ SettingsInv /\ PanelInv /\ DataInv

-----------------------------------------------------------------------------
(***************************************************************************)
(* Sums and greatest values over finite sets of nodes.                     *)
(***************************************************************************)

LEMMA LeastNumber ==
  ASSUME NEW T, T \subseteq Nat, T # {}
  PROVE  \E x \in T : \A y \in T : x <= y
<1>1. PICK x \in T : \A y \in T : <<y, x>> \notin OpToRel(<, Nat)
  BY WFMin, NatLessThanWellFounded
<1>2. ASSUME NEW y \in T PROVE x <= y
  <2>1. ~(y < x) BY <1>1 DEF OpToRel
  <2> QED BY <2>1
<1> QED BY <1>2

\* Among the subsets that are singled out, one has the fewest nodes.
LEMMA SmallestSubset ==
  ASSUME NEW S, IsFiniteSet(S), NEW Which, Which \subseteq SUBSET S, Which # {}
  PROVE  \E T \in Which : \A U \in SUBSET T : U # T => U \notin Which
<1> DEFINE sizes == {Cardinality(T) : T \in Which}
<1>1. \A T \in SUBSET S : IsFiniteSet(T) /\ Cardinality(T) \in Nat
  BY FS_Subset, FS_CardinalityType
<1>2. sizes \subseteq Nat /\ sizes # {} BY <1>1
<1>3. PICK least \in sizes : \A y \in sizes : least <= y BY <1>2, LeastNumber
<1>4. PICK T \in Which : Cardinality(T) = least BY <1>3
<1>5. ASSUME NEW U \in SUBSET T, U # T, U \in Which PROVE FALSE
  <2>1. least <= Cardinality(U) BY <1>3, <1>5
  <2>2. PICK x \in T : x \notin U BY <1>5
  <2>3. U \in SUBSET (T \ {x}) BY <2>2
  <2>4. IsFiniteSet(T) /\ Cardinality(T) \in Nat BY <1>1, <1>4
  <2>5. IsFiniteSet(T \ {x}) /\ Cardinality(T \ {x}) = Cardinality(T) - 1
    BY <2>2, <2>4, FS_RemoveElement
  <2>6. Cardinality(U) \in Nat /\ Cardinality(U) <= Cardinality(T \ {x})
    BY <2>3, <2>5, FS_Subset, FS_CardinalityType
  <2> QED BY <1>4, <2>1, <2>4, <2>5, <2>6
<1> QED BY <1>5

\* One of the nodes has the greatest value.
LEMMA GreatestValue ==
  ASSUME NEW S, IsFiniteSet(S), S # {}, NEW f, \A n \in S : f[n] \in Int
  PROVE  \E n \in S : \A m \in S : f[n] >= f[m]
<1> DEFINE Greatest(T, n) == n \in T /\ \A m \in T : f[n] >= f[m]
           Which == {T \in SUBSET S : T # {} /\ \A n \in T : ~Greatest(T, n)}
<1> SUFFICES ASSUME S \in Which PROVE FALSE OBVIOUS
<1>1. PICK T \in Which : \A U \in SUBSET T : U # T => U \notin Which
  <2>1. Which \subseteq SUBSET S /\ Which # {} OBVIOUS
  <2> HIDE DEF Which
  <2> QED BY <2>1, SmallestSubset
<1>2. PICK n \in T : TRUE BY <1>1
<1>3. T \ {n} # {}
  <2>1. SUFFICES ASSUME T = {n} PROVE FALSE BY <1>2
  <2>2. Greatest(T, n) BY <1>1, <2>1
  <2> QED BY <1>1, <1>2, <2>2
<1>4. PICK m \in T \ {n} : Greatest(T \ {n}, m)
  <2>1. T \ {n} \in SUBSET T /\ T \ {n} # T BY <1>2
  <2>2. T \ {n} \notin Which BY <1>1, <2>1
  <2> QED BY <1>1, <1>3, <2>2
<1>5. f[n] \in Int /\ f[m] \in Int /\ \A k \in T : f[k] \in Int BY <1>1, <1>2, <1>4
<1>6. CASE f[n] >= f[m]
  <2>1. \A k \in T : f[n] >= f[k] BY <1>2, <1>4, <1>5, <1>6
  <2> QED BY <1>1, <1>2, <2>1
<1>7. CASE f[m] >= f[n]
  <2>1. \A k \in T : f[m] >= f[k] BY <1>2, <1>4, <1>5, <1>7
  <2> QED BY <1>1, <1>4, <2>1
<1> QED BY <1>5, <1>6, <1>7

One(s) == CHOOSE x \in s : TRUE
Added(sum, s) == IF s = {} THEN 0 ELSE Place[One(s)] + sum[s \ {One(s)}]
IsSum(sum, S) == sum = [s \in SUBSET S |-> Added(sum, s)]

LEMMA SumOfPlaces ==
  ASSUME NEW S
  PROVE  MapThenSumSet(LAMBDA n : Place[n], S) = (CHOOSE sum : IsSum(sum, S))[S]
BY DEF MapThenSumSet, MapThenFoldSet, IsSum, Added, One

\* There is a function that adds the places of every subset: it is built for the subsets
\* of ever more nodes.
LEMMA SumExists ==
  ASSUME NEW S, IsFiniteSet(S)
  PROVE  \E sum : IsSum(sum, S)
<1> DEFINE AddsUpTo(sum, n) == \A s \in SUBSET S : Cardinality(s) <= n => sum[s] = Added(sum, s)
           Missing == {n \in Nat : ~\E sum : AddsUpTo(sum, n)}
<1>1. \A s \in SUBSET S : IsFiniteSet(s) /\ Cardinality(s) \in Nat
  BY FS_Subset, FS_CardinalityType
<1>2. ASSUME NEW n \in Nat, NEW sum, n = 0 \/ AddsUpTo(sum, n - 1)
      PROVE  AddsUpTo([s \in SUBSET S |-> Added(sum, s)], n)
  <2> DEFINE next == [s \in SUBSET S |-> Added(sum, s)]
  <2>1. SUFFICES ASSUME NEW s \in SUBSET S, Cardinality(s) <= n
                 PROVE  next[s] = Added(next, s)
    OBVIOUS
  <2>2. CASE s = {} BY <2>2 DEF Added
  <2>3. CASE s # {}
    <3> DEFINE rest == s \ {One(s)}
    <3>1. One(s) \in s BY <2>3 DEF One
    <3>2. rest \in SUBSET S /\ Cardinality(rest) = Cardinality(s) - 1
      BY <1>1, <3>1, FS_RemoveElement
    <3>3. Cardinality(s) \in Nat /\ Cardinality(rest) \in Nat BY <1>1, <3>2
    <3>4. n # 0 /\ Cardinality(rest) <= n - 1 BY <2>1, <3>2, <3>3
    <3>5. sum[rest] = Added(sum, rest) BY <1>2, <3>2, <3>4
    <3>6. next[rest] = Added(sum, rest) BY <3>2
    <3>7. next[s] = Added(sum, s) OBVIOUS
    <3>8. Added(sum, s) = Place[One(s)] + sum[rest] BY <2>3 DEF Added
    <3>9. Added(next, s) = Place[One(s)] + next[rest] BY <2>3 DEF Added
    <3> HIDE DEF next, rest
    <3> QED BY <3>5, <3>6, <3>7, <3>8, <3>9
  <2> QED BY <2>2, <2>3
<1>3. Missing = {}
  <2>1. SUFFICES ASSUME Missing # {} PROVE FALSE OBVIOUS
  <2>2. Missing \subseteq Nat OBVIOUS
  <2>3. PICK n \in Missing : \A m \in Missing : n <= m BY <2>1, <2>2, LeastNumber
  <2>4. n \in Nat /\ ~\E sum : AddsUpTo(sum, n) BY <2>3
  <2>5. CASE n = 0
    <3>1. AddsUpTo([s \in SUBSET S |-> Added({}, s)], n) BY <1>2, <2>4, <2>5
    <3> QED BY <2>4, <3>1
  <2>6. CASE n # 0
    <3>1. n - 1 \in Nat /\ ~(n <= n - 1) BY <2>4, <2>6
    <3>2. n - 1 \notin Missing BY <2>3, <3>1
    <3>3. PICK sum : AddsUpTo(sum, n - 1) BY <3>1, <3>2
    <3>4. AddsUpTo([s \in SUBSET S |-> Added(sum, s)], n) BY <1>2, <2>4, <3>3
    <3> QED BY <2>4, <3>4
  <2> QED BY <2>5, <2>6
<1>4. Cardinality(S) \in Nat /\ \A s \in SUBSET S : Cardinality(s) <= Cardinality(S)
  BY <1>1, FS_Subset
<1>5. PICK sum : AddsUpTo(sum, Cardinality(S)) BY <1>3, <1>4
<1> DEFINE all == [s \in SUBSET S |-> sum[s]]
<1>6. ASSUME NEW s \in SUBSET S PROVE all[s] = Added(all, s)
  <2>1. all[s] = Added(sum, s) BY <1>4, <1>5
  <2>2. s \ {One(s)} \in SUBSET S OBVIOUS
  <2>3. all[s \ {One(s)}] = sum[s \ {One(s)}] BY <2>2
  <2> HIDE DEF all
  <2> QED BY <2>1, <2>3 DEF Added
<1>7. all = [s \in SUBSET S |-> Added(all, s)]
  <2>1. all = [s \in SUBSET S |-> all[s]] OBVIOUS
  <2> HIDE DEF all
  <2> QED BY <1>6, <2>1
<1> HIDE DEF all
<1> QED BY <1>7 DEF IsSum

LEMMA SumTyped ==
  ASSUME NEW S, IsFiniteSet(S), \A n \in S : Place[n] \in Int, NEW sum, IsSum(sum, S)
  PROVE  sum[S] \in Int
<1> DEFINE Which == {s \in SUBSET S : sum[s] \notin Int}
<1> SUFFICES ASSUME S \in Which PROVE FALSE OBVIOUS
<1>1. PICK s \in Which : \A u \in SUBSET s : u # s => u \notin Which
  <2>1. Which \subseteq SUBSET S /\ Which # {} OBVIOUS
  <2> HIDE DEF Which
  <2> QED BY <2>1, SmallestSubset
<1>2. sum[s] = Added(sum, s)
  <2>1. s \in SUBSET S BY <1>1
  <2> QED BY <2>1 DEF IsSum
<1>3. s # {}
  <2>1. s = {} => sum[s] = 0 BY <1>2 DEF Added
  <2> QED BY <1>1, <2>1
<1>4. One(s) \in s /\ s \ {One(s)} # s BY <1>3 DEF One
<1>5. s \ {One(s)} \in SUBSET S /\ s \ {One(s)} \notin Which BY <1>1, <1>4
<1>6. sum[s \ {One(s)}] \in Int /\ Place[One(s)] \in Int BY <1>1, <1>4, <1>5
<1>7. sum[s] = Place[One(s)] + sum[s \ {One(s)}] BY <1>2, <1>3 DEF Added
<1> QED BY <1>1, <1>6, <1>7

\* The camera is always sent to a point, from a distance.
LEMMA CameraTyped ==
  ASSUME NEW nodes, nodes \subseteq Nodes, NEW ids
  PROVE  ComputeCameraTarget(nodes, ids) \in Targets
<1> DEFINE framed == nodes \intersect ids
<1>1. CASE framed = {} BY <1>1 DEF ComputeCameraTarget, Targets
<1>2. CASE framed # {}
  <2>1. IsFiniteSet(framed) /\ Cardinality(framed) \in Nat /\ Cardinality(framed) # 0
    <3>1. framed \in SUBSET Nodes /\ IsFiniteSet(Nodes) BY FiniteDrawing
    <3>2. IsFiniteSet(framed) BY <3>1, FS_Subset
    <3> HIDE DEF framed
    <3> QED BY <1>2, <3>2, FS_CardinalityType, FS_EmptySet
  <2>2. \A n \in framed : Place[n] \in Int BY PlacesAndSizes
  <2> HIDE DEF framed
  <2>3. (CHOOSE sum : IsSum(sum, framed))[framed] \in Int
    <3>1. IsSum(CHOOSE sum : IsSum(sum, framed), framed) BY <2>1, SumExists
    <3> QED BY <2>1, <2>2, <3>1, SumTyped
  <2>4. Centre(framed) \in Int
    <3>1. MapThenSumSet(LAMBDA n : Place[n], framed) \in Int BY <2>3, SumOfPlaces
    <3> QED BY <2>1, <3>1 DEF Centre
  <2> DEFINE c == Centre(framed)
             away == [n \in framed |-> AtLeast(Place[n] - c, c - Place[n])]
             offs == {AtLeast(Place[n] - c, c - Place[n]) : n \in framed}
  <2>5. \A n \in framed : away[n] \in Int BY <2>2, <2>4 DEF AtLeast
  <2>6. PICK n \in framed : \A m \in framed : away[n] >= away[m]
    <3> HIDE DEF away
    <3> QED BY <1>2, <2>1, <2>5, GreatestValue
  <2>7. away[n] \in offs /\ \A y \in offs : away[n] >= y BY <2>6
  <2>8. Spread(framed) \in offs
    <3>1. Spread(framed) = CHOOSE x \in offs : \A y \in offs : x >= y BY DEF Spread, Max
    <3> HIDE DEF offs, away
    <3> QED BY <2>7, <3>1
  <2>9. Spread(framed) \in Int BY <2>5, <2>8
  <2>10. ComputeCameraTarget(nodes, ids) =
           [lookAt |-> Centre(framed),
            distance |-> AtLeast(IF Cardinality(framed) <= 5 THEN 300 ELSE 200, 3 * Spread(framed))]
    BY <1>2 DEF ComputeCameraTarget, framed
  <2> HIDE DEF offs, away, c
  <2>11. AtLeast(IF Cardinality(framed) <= 5 THEN 300 ELSE 200, 3 * Spread(framed)) \in Nat
    BY <2>9 DEF AtLeast
  <2> QED BY <2>4, <2>10, <2>11 DEF Targets
<1> QED BY <1>1, <1>2

-----------------------------------------------------------------------------
(***************************************************************************)
(* The panel.                                                              *)
(***************************************************************************)

LEMMA RequestOf ==
  ASSUME NEW entities, NEW s \in Seq(RequestsFor(entities))
  PROVE  /\ Len(s) \in Nat /\ DOMAIN s = 1 .. Len(s)
         /\ \A i \in DOMAIN s : /\ s[i] \in RequestsFor(entities) /\ s[i].of \in entities
                                /\ s[i].answer \in entities \union {Failed, None}
<1>1. Len(s) \in Nat /\ DOMAIN s = 1 .. Len(s) BY LenProperties
<1>2. \A i \in DOMAIN s : s[i] \in RequestsFor(entities) BY <1>1, ElementOfSeq
<1> QED BY <1>1, <1>2 DEF RequestsFor

LEMMA RequestMade ==
  ASSUME NEW entities, NEW s \in Seq(RequestsFor(entities)), NEW e \in entities
  PROVE  LET made == Append(s, [of |-> e, answer |-> None]) IN
         made \in Seq(RequestsFor(entities)) /\ Len(made) = Len(s) + 1
<1>1. [of |-> e, answer |-> None] \in RequestsFor(entities) BY DEF RequestsFor
<1> QED BY <1>1, AppendProperties

LEMMA RequestAnswered ==
  ASSUME NEW entities, NEW s \in Seq(RequestsFor(entities)), NEW i \in DOMAIN s,
         NEW answer \in entities \union {Failed, None}
  PROVE  /\ [s EXCEPT ![i].answer = answer] \in Seq(RequestsFor(entities))
         /\ Len([s EXCEPT ![i].answer = answer]) = Len(s)
<1>1. i \in 1 .. Len(s) /\ s[i] \in RequestsFor(entities) BY RequestOf
<1>2. [s[i] EXCEPT !.answer = answer] \in RequestsFor(entities) BY <1>1 DEF RequestsFor
<1>3. [s EXCEPT ![i].answer = answer] = [s EXCEPT ![i] = [s[i] EXCEPT !.answer = answer]]
  OBVIOUS
<1> QED BY <1>1, <1>2, <1>3, ExceptSeq

LEMMA RequestEnded ==
  ASSUME NEW entities, NEW s \in Seq(RequestsFor(entities)), NEW i \in DOMAIN s
  PROVE  LET left == SubSeq(s, 1, i - 1) \o SubSeq(s, i + 1, Len(s)) IN
         left \in Seq(RequestsFor(entities)) /\ Len(left) = Len(s) - 1
<1>1. Len(s) \in Nat /\ i \in 1 .. Len(s) BY LenProperties
<1> DEFINE before == SubSeq(s, 1, i - 1)
           after == SubSeq(s, i + 1, Len(s))
<1>2. \A k \in 1 .. Len(s) : s[k] \in RequestsFor(entities) BY ElementOfSeq
<1>3. before \in Seq(RequestsFor(entities)) /\ Len(before) = i - 1
  <2>1. 1 \in Int /\ i - 1 \in Int /\ \A k \in 1 .. i - 1 : s[k] \in RequestsFor(entities)
    BY <1>1, <1>2
  <2>2. Len(before) = IF 1 <= i - 1 THEN (i - 1) - 1 + 1 ELSE 0 BY <2>1, SubSeqProperties
  <2>3. before \in Seq(RequestsFor(entities)) BY <2>1, SubSeqProperties
  <2> HIDE DEF before
  <2> QED BY <1>1, <2>2, <2>3
<1>4. after \in Seq(RequestsFor(entities)) /\ Len(after) = Len(s) - i
  <2>1. i + 1 \in Int /\ Len(s) \in Int /\ \A k \in i + 1 .. Len(s) : s[k] \in RequestsFor(entities)
    BY <1>1, <1>2
  <2>2. Len(after) = IF i + 1 <= Len(s) THEN Len(s) - (i + 1) + 1 ELSE 0
    BY <2>1, SubSeqProperties
  <2>3. after \in Seq(RequestsFor(entities)) BY <2>1, SubSeqProperties
  <2> HIDE DEF after
  <2> QED BY <1>1, <2>2, <2>3
<1> HIDE DEF before, after
<1>5. before \o after \in Seq(RequestsFor(entities)) /\ Len(before \o after) = Len(before) + Len(after)
  BY <1>3, <1>4, ConcatProperties
<1>6. Len(before \o after) = Len(s) - 1 BY <1>1, <1>3, <1>4, <1>5
<1> QED BY <1>5, <1>6 DEF before, after

LEMMA NoRequests == Len(<<>>) = 0 /\ \A entities : <<>> \in Seq(RequestsFor(entities))
BY EmptySeq

LEMMA KindOf ==
  /\ \A n : Kind(n) = "none" <=> n = None
  /\ \A n \in Nodes : n # None
  /\ \A n \in Nodes : Kind(n) = "callout" <=> n \in Skeletons
<1>1. \A n \in Nodes : n # None BY FiniteDrawing, Zenon
<1>2. Skeletons \subseteq Nodes BY PanelConstants, Zenon
<1> QED BY <1>1, <1>2 DEF Kind

\* A new panel has nothing yet.
LEMMA NewPanelKept ==
  ASSUME PanelInv, NEW kind, NewPanel(kind), selected' \in Nodes \union {None},
         subject' \in Entities \union {None}, selected' = None <=> subject' = None
  PROVE  PanelInv' /\ calls' = <<>> /\ code' = None /\ copying' = None
<1>1. issues' \in {"unasked", "pending", "answered"} BY DEF NewPanel, PanelInv, PanelTypeOK
<1>2. code' = None /\ codeError' = FALSE /\ codeLoading' = FALSE /\ calls' = <<>>
      /\ crossed' = FALSE /\ renumbered' = FALSE /\ copied' = None /\ copying' = None
  BY DEF NewPanel, ResetCode
<1>3. Len(calls') <= MaxCalls
  <2>1. Len(calls') = 0 BY <1>2, NoRequests
  <2> QED BY <2>1, PanelConstants
<1>4. calls' \in Seq(RequestsFor(Entities)) /\ calls' \in Seq(RequestsFor({subject'}))
  BY <1>2, NoRequests
<1>5. DOMAIN calls' = {} BY <1>2
<1>6. PanelTypeOK' BY <1>1, <1>2, <1>3, <1>5 DEF PanelTypeOK
<1> QED BY <1>2, <1>4, <1>6 DEF PanelInv

\* Once the graph is there, what the panel has is a matter of its node alone.
LEMMA PanelOfGraph ==
  ASSUME PanelTypeOK, screen = "graph", ~PanelShown
  PROVE  calls = <<>> /\ code = None /\ copying = None
<1>1. selected = None BY DEF PanelShown
<1> QED BY <1>1, KindOf DEF PanelTypeOK

\* Whatever node the user comes to, the panel has nothing of another entity, unless it
\* asked for code meanwhile or the entity came under the number it shows.
LEMMA SelectKeeps ==
  ASSUME PanelInv, NEW n \in Nodes \union {None}, NEW e \in Entities \union {None},
         n = None <=> e = None, Select(n, e), screen' = "graph"
  PROVE  PanelInv'
<1>1. selected' = n /\ subject' = e BY DEF Select
<1>2. CASE Kind(n) # Kind(selected)
  <2>1. NewPanel(Kind(n)) BY <1>2 DEF Select
  <2> QED BY <1>1, <2>1, NewPanelKept
<1>3. CASE Kind(n) = Kind(selected)
  <2>1. UNCHANGED <<calls, copied, copying, issues>> BY <1>3 DEF Select, KeepPanel, calloutVars
  <2>2. crossed' = (crossed \/ (n # selected /\ calls # <<>>))
        /\ renumbered' = (n = selected /\ (renumbered \/ e # subject))
    BY <1>3 DEF Select, KeepPanel
  <2>3. n = selected => UNCHANGED <<code, codeError, codeLoading>> BY <1>3 DEF Select
  <2>4. n # selected => code' = None /\ codeError' = FALSE /\ codeLoading' = FALSE
    BY <1>3 DEF Select, ResetCode
  <2>5. Kind(selected') = Kind(selected) BY <1>1, <1>3
  <2>6. PanelTypeOK'
    <3>1. codeLoading' \in BOOLEAN /\ codeError' \in BOOLEAN
      BY <2>3, <2>4 DEF PanelInv, PanelTypeOK
    <3>2. crossed' \in BOOLEAN /\ renumbered' \in BOOLEAN BY <2>2 DEF PanelInv, PanelTypeOK
    <3>3. code' \in Entities \union {None} BY <2>3, <2>4 DEF PanelInv, PanelTypeOK
    <3>4. Kind(selected') # "detail" => code' = None /\ calls' = <<>> /\ ~codeLoading'
      BY <2>1, <2>3, <2>4, <2>5 DEF PanelInv, PanelTypeOK
    <3>5. Kind(selected') # "callout" => copied' = None /\ copying' = None
      BY <2>1, <2>5 DEF PanelInv, PanelTypeOK
    <3>6. Len(calls') <= MaxCalls /\ issues' \in {"unasked", "pending", "answered"}
          /\ {copied', copying'} \subseteq Skeletons \union {None}
          /\ \A i \in DOMAIN calls' : /\ calls'[i].of \in Entities
                                      /\ calls'[i].answer \in Entities \union {Failed, None}
      BY <2>1 DEF PanelInv, PanelTypeOK
    <3> QED BY <1>1, <3>1, <3>2, <3>3, <3>4, <3>5, <3>6 DEF PanelTypeOK
  <2>7. codeLoading' => calls' # <<>> BY <2>1, <2>3, <2>4 DEF PanelInv
  <2>8. Steady' => code' \in {None, subject'} /\ calls' \in Seq(RequestsFor({subject'}))
    <3>1. CASE n = selected
      <4>1. Steady' => Steady /\ subject' = subject BY <1>1, <2>2, <3>1 DEF Steady
      <4> QED BY <2>1, <2>3, <3>1, <4>1 DEF PanelInv
    <3>2. CASE n # selected
      <4>1. Steady' => calls' = <<>> BY <2>1, <2>2, <3>2 DEF Steady
      <4> QED BY <2>4, <3>2, <4>1, NoRequests
    <3> QED BY <3>1, <3>2
  <2>9. ~PanelShown' => calls' = <<>> /\ code' = None /\ copying' = None
    <3>1. ~PanelShown' => selected' = None BY DEF PanelShown
    <3> QED BY <2>6, <3>1, KindOf DEF PanelTypeOK
  <2>10. calls' \in Seq(RequestsFor(Entities)) BY <2>1 DEF PanelInv
  <2> QED BY <2>6, <2>7, <2>8, <2>9, <2>10 DEF PanelInv
<1> QED BY <1>2, <1>3

\* What stays of the panel while the rest of the area changes.
LEMMA PanelStays ==
  ASSUME PanelInv, UNCHANGED panelVars, screen' = screen
  PROVE  PanelInv'
<1>1. UNCHANGED <<selected, subject, code, codeLoading, codeError, calls, crossed, renumbered,
                  copied, copying, issues>>
  BY DEF panelVars, nodeVars, codeVars, calloutVars
<1> QED BY <1>1 DEF PanelInv, PanelTypeOK, PanelShown, Kind, Steady

LEMMA CodeIsAskedOf ==
  ASSUME PanelInv, CanFetchCode
  PROVE  selected \in Nodes /\ Kind(selected) = "detail" /\ subject \in Entities
<1>1. Kind(selected) = "detail" /\ subject \in Entities BY PanelConstants DEF CanFetchCode
<1>2. selected # None BY <1>1, KindOf
<1> QED BY <1>1, <1>2 DEF PanelInv, PanelTypeOK

LEMMA LoadCodeKeeps ==
  ASSUME PanelInv, LoadCode, PanelShown, UNCHANGED areaVars
  PROVE  PanelInv'
<1>1. selected \in Nodes /\ Kind(selected) = "detail" /\ subject \in Entities
  BY CodeIsAskedOf DEF LoadCode
<1>2. code = None /\ Len(calls) < MaxCalls
      /\ calls' = Append(calls, [of |-> subject, answer |-> None])
      /\ codeLoading' = TRUE /\ codeError' = FALSE
      /\ UNCHANGED <<code, crossed, renumbered, selected, subject, copied, copying, issues>>
  BY DEF LoadCode, nodeVars, calloutVars
<1>3. calls' \in Seq(RequestsFor(Entities)) /\ Len(calls') = Len(calls) + 1
  BY <1>1, <1>2, RequestMade DEF PanelInv
<1>4. Steady => calls' \in Seq(RequestsFor({subject'}))
  BY <1>2, RequestMade DEF PanelInv
<1>5. Len(calls) \in Nat BY RequestOf DEF PanelInv
<1>6. calls' # <<>> BY <1>3, <1>5, NoRequests
<1>7. Len(calls') <= MaxCalls BY <1>2, <1>3, <1>5, PanelConstants
<1>8. \A i \in DOMAIN calls' : calls'[i].of \in Entities
                              /\ calls'[i].answer \in Entities \union {Failed, None}
  BY <1>3, RequestOf
<1>9. PanelTypeOK' BY <1>1, <1>2, <1>7, <1>8 DEF PanelInv, PanelTypeOK, Kind
<1>10. PanelShown' BY <1>2 DEF PanelShown, areaVars
<1> QED BY <1>2, <1>3, <1>4, <1>6, <1>9, <1>10 DEF PanelInv, Steady

LEMMA HideCodeKeeps ==
  ASSUME PanelInv, HideCode, UNCHANGED areaVars
  PROVE  PanelInv'
<1>1. code' = None
      /\ UNCHANGED <<codeLoading, codeError, calls, crossed, renumbered, selected, subject,
                     copied, copying, issues>>
      /\ screen' = screen
  BY DEF HideCode, nodeVars, calloutVars, areaVars
<1> QED BY <1>1 DEF PanelInv, PanelTypeOK, Kind, PanelShown, Steady

LEMMA AnswerCodeKeeps ==
  ASSUME PanelInv, NEW i \in DOMAIN calls, AnswerCode(i), UNCHANGED areaVars
  PROVE  PanelInv'
<1>1. PICK answer \in {calls[i].of, Failed} : calls' = [calls EXCEPT ![i].answer = answer]
  BY DEF AnswerCode
<1>2. UNCHANGED <<code, codeLoading, codeError, crossed, renumbered, selected, subject,
                  copied, copying, issues>>
      /\ screen' = screen
  BY DEF AnswerCode, nodeVars, calloutVars, areaVars
<1>3. calls' \in Seq(RequestsFor(Entities)) /\ Len(calls') = Len(calls)
  <2>1. answer \in Entities \union {Failed, None} BY <1>1, RequestOf DEF PanelInv
  <2>2. calls \in Seq(RequestsFor(Entities)) BY DEF PanelInv
  <2> QED BY <1>1, <2>1, <2>2, RequestAnswered
<1>4. Steady => calls' \in Seq(RequestsFor({subject'}))
  <2>1. SUFFICES ASSUME Steady PROVE calls' \in Seq(RequestsFor({subject}))
    BY <1>2
  <2>2. calls \in Seq(RequestsFor({subject})) BY <2>1 DEF PanelInv
  <2>3. answer \in {subject} \union {Failed, None} BY <1>1, <2>2, RequestOf
  <2> QED BY <1>1, <2>2, <2>3, RequestAnswered
<1>5. calls # <<>> BY DEF PanelInv
<1>6. calls' # <<>>
  <2>1. Len(calls) # 0 BY <1>5, EmptySeq DEF PanelInv
  <2> QED BY <1>3, <2>1, NoRequests
<1>7. \A k \in DOMAIN calls' : calls'[k].of \in Entities
                              /\ calls'[k].answer \in Entities \union {Failed, None}
  BY <1>3, RequestOf
<1>8. PanelTypeOK' BY <1>2, <1>3, <1>5, <1>7 DEF PanelInv, PanelTypeOK, Kind
<1>9. PanelShown' BY <1>2, <1>5 DEF PanelInv, PanelShown
<1> QED BY <1>2, <1>3, <1>4, <1>6, <1>8, <1>9 DEF PanelInv, Steady

\* Late or not, an answer brings code of the entity it was asked for, and frees the
\* button.
LEMMA DeliverCodeKeeps ==
  ASSUME PanelInv, NEW i \in DOMAIN calls, DeliverCode(i), UNCHANGED areaVars
  PROVE  PanelInv'
<1>1. calls' = SubSeq(calls, 1, i - 1) \o SubSeq(calls, i + 1, Len(calls))
      /\ calls[i].answer # None /\ codeLoading' = FALSE
      /\ UNCHANGED <<crossed, renumbered, selected, subject, copied, copying, issues>>
      /\ screen' = screen
  BY DEF DeliverCode, nodeVars, calloutVars, areaVars
<1>2. calls[i].answer = Failed => codeError' = TRUE /\ code' = code BY DEF DeliverCode
<1>3. calls[i].answer # Failed => codeError' = codeError /\ code' = calls[i].answer
  BY DEF DeliverCode
<1>4. calls' \in Seq(RequestsFor(Entities)) /\ Len(calls') = Len(calls) - 1
  BY <1>1, RequestEnded DEF PanelInv
<1>5. Steady => calls' \in Seq(RequestsFor({subject'}))
  BY <1>1, RequestEnded DEF PanelInv
<1>6. code' \in Entities \union {None} /\ codeError' \in BOOLEAN
  BY <1>1, <1>2, <1>3, RequestOf DEF PanelInv, PanelTypeOK
<1>7. Steady => code' \in {None, subject'}
  <2>1. SUFFICES ASSUME Steady PROVE code' \in {None, subject} BY <1>1
  <2>2. calls \in Seq(RequestsFor({subject})) /\ code \in {None, subject}
    BY <2>1 DEF PanelInv
  <2>3. calls[i].answer \in {subject} \union {Failed, None} BY <2>2, RequestOf
  <2> QED BY <1>1, <1>2, <1>3, <2>2, <2>3
<1>8. calls # <<>> BY DEF PanelInv
<1>9. PanelShown' /\ Kind(selected') = "detail"
  <2>1. PanelShown /\ Kind(selected) = "detail" BY <1>8 DEF PanelInv, PanelTypeOK
  <2> QED BY <1>1, <2>1 DEF PanelShown, Kind
<1>10. Len(calls') <= MaxCalls
  <2>1. Len(calls) \in Nat /\ Len(calls) <= MaxCalls BY RequestOf DEF PanelInv, PanelTypeOK
  <2> QED BY <1>4, <2>1, PanelConstants
<1>11. \A k \in DOMAIN calls' : calls'[k].of \in Entities
                               /\ calls'[k].answer \in Entities \union {Failed, None}
  BY <1>4, RequestOf
<1>12. PanelTypeOK' BY <1>1, <1>6, <1>9, <1>10, <1>11 DEF PanelInv, PanelTypeOK, Kind
<1> QED BY <1>1, <1>4, <1>5, <1>7, <1>9, <1>12 DEF PanelInv, Steady

LEMMA CalloutKeeps ==
  ASSUME PanelInv, (PanelShown /\ CopyPrompt) \/ AnswerIssues \/ CopyEnds \/ CopiedFades,
         UNCHANGED areaVars
  PROVE  PanelInv'
<1>1. UNCHANGED <<selected, subject, code, codeLoading, codeError, calls, crossed, renumbered,
                  screen>>
  BY DEF CopyPrompt, AnswerIssues, CopyEnds, CopiedFades, nodeVars, codeVars, areaVars
<1>2. PanelShown' = PanelShown /\ Kind(selected') = Kind(selected) BY <1>1 DEF PanelShown, Kind
<1>3. CASE PanelShown /\ CopyPrompt
  <2>1. Kind(selected) = "callout" /\ copying' = selected /\ UNCHANGED <<copied, issues>>
    BY <1>3 DEF CopyPrompt
  <2>2. selected \in Skeletons BY <2>1, KindOf DEF PanelInv, PanelTypeOK
  <2>3. PanelTypeOK' BY <1>1, <1>2, <2>1, <2>2 DEF PanelInv, PanelTypeOK
  <2> QED BY <1>1, <1>2, <1>3, <2>3 DEF PanelInv, Steady
<1>4. CASE AnswerIssues
  <2>1. issues' = "answered" /\ UNCHANGED <<copied, copying>> BY <1>4 DEF AnswerIssues
  <2>2. PanelTypeOK' BY <1>1, <1>2, <2>1 DEF PanelInv, PanelTypeOK
  <2> QED BY <1>1, <1>2, <2>1, <2>2 DEF PanelInv, Steady
<1>5. CASE CopyEnds
  <2>1. copying # None /\ copying' = None /\ copied' \in {copied, copying} /\ issues' = issues
    BY <1>5 DEF CopyEnds
  <2>2. PanelTypeOK' BY <1>1, <1>2, <2>1 DEF PanelInv, PanelTypeOK
  <2> QED BY <1>1, <1>2, <2>1, <2>2 DEF PanelInv, Steady
<1>6. CASE CopiedFades
  <2>1. copied' = None /\ UNCHANGED <<copying, issues>> BY <1>6 DEF CopiedFades
  <2>2. PanelTypeOK' BY <1>1, <1>2, <2>1 DEF PanelInv, PanelTypeOK
  <2> QED BY <1>1, <1>2, <2>1, <2>2 DEF PanelInv, Steady
<1> QED BY <1>3, <1>4, <1>5, <1>6

-----------------------------------------------------------------------------
(***************************************************************************)
(* The settings.                                                           *)
(***************************************************************************)

LEMMA Limits ==
  /\ Keys = {"edgeBrightness", "nodeGlow", "bloom", "left", "right"}
  /\ Sliders \subseteq Keys /\ Widths \subseteq Keys
  /\ \A key \in Keys : Within(key, Default[key])
  /\ \A side \in Widths : /\ Narrowest[side] <= Default[side] /\ Default[side] <= Widest
                          /\ Narrowest[side] \in Int /\ Widest \in Int
                          /\ Narrowest[side] <= Widest
                          /\ Lowest[side] <= Narrowest[side] /\ Widest <= Highest[side]
  /\ \A key \in Keys : Lowest[key] \in Int /\ Highest[key] \in Int
<1>1. Keys = {"edgeBrightness", "nodeGlow", "bloom", "left", "right"}
  BY DEF Keys, Sliders, Widths
<1>2. \A key \in Keys : Within(key, Default[key]) /\ Lowest[key] \in Int /\ Highest[key] \in Int
  BY <1>1 DEF Within, Default, Lowest, Highest
<1> QED BY <1>1, <1>2 DEF Keys, Sliders, Widths, Default, Lowest, Highest, Narrowest, Widest

LEMMA ClampedWidth ==
  ASSUME NEW side \in Widths, NEW x \in Int
  PROVE  Settable(side, Clamp(Narrowest[side], Widest, x))
<1>1. Narrowest[side] \in Int /\ Widest \in Int /\ Lowest[side] \in Int /\ Highest[side] \in Int
      /\ Narrowest[side] <= Widest /\ Lowest[side] <= Narrowest[side] /\ Widest <= Highest[side]
  BY Limits
<1> DEFINE width == Clamp(Narrowest[side], Widest, x)
<1>2. width \in Int /\ Narrowest[side] <= width /\ width <= Widest
  BY <1>1 DEF Clamp, AtMost, AtLeast
<1> HIDE DEF width
<1>3. Lowest[side] <= width /\ width <= Highest[side] BY <1>1, <1>2
<1>4. Settable(side, width) BY <1>2, <1>3 DEF Settable, Within
<1> QED BY <1>4 DEF width

LEMMA NoneIsNoValue == None \notin Int /\ None \notin Keys
BY FiniteDrawing, SceneConstants, Zenon

\* The nearest number of whole pixels: it is one, and a limit in whole pixels stays one.
LEMMA NearestPixel ==
  ASSUME NEW x \in Int
  PROVE  /\ Rounded(x) \in Int /\ Rounded(Rounded(x)) = Rounded(x)
         /\ \A pixels \in Int : 1000 * pixels <= x => 1000 * pixels <= Rounded(x)
         /\ \A pixels \in Int : x <= 1000 * pixels => Rounded(x) <= 1000 * pixels
<1> DEFINE nearest == (x + 500) \div 1000
<1>1. nearest \in Int /\ 1000 * nearest <= x + 500 /\ x + 500 < 1000 * nearest + 1000
  OBVIOUS
<1>2. Rounded(x) = nearest * 1000 BY DEF Rounded
<1> HIDE DEF nearest
<1>3. Rounded(x) = 1000 * nearest BY <1>1, <1>2
<1>4. (1000 * nearest + 500) \div 1000 = nearest BY <1>1
<1>5. Rounded(Rounded(x)) = Rounded(x) BY <1>1, <1>2, <1>3, <1>4 DEF Rounded
<1>6. ASSUME NEW pixels \in Int, 1000 * pixels <= x PROVE 1000 * pixels <= 1000 * nearest
  BY <1>1, <1>6
<1>7. ASSUME NEW pixels \in Int, x <= 1000 * pixels PROVE 1000 * nearest <= 1000 * pixels
  BY <1>1, <1>7
<1> QED BY <1>1, <1>3, <1>5, <1>6, <1>7

\* What the user can set can be stored.
LEMMA KeptStorable ==
  ASSUME NEW key \in Keys, NEW x, Settable(key, x)
  PROVE  Storable(key, Kept(key, x))
<1>1. x \in Int /\ Lowest[key] <= x /\ x <= Highest[key] BY DEF Settable, Within
<1>2. CASE key \in Sliders
  <2>1. Kept(key, x) = x BY <1>2 DEF Kept
  <2> QED BY <2>1 DEF Storable
<1>3. CASE key \notin Sliders
  <2>1. key \in Widths BY <1>3 DEF Keys
  <2>2. Kept(key, x) = Rounded(x) BY <1>3 DEF Kept
  <2>3. Narrowest[key] <= x /\ x <= Widest BY <2>1 DEF Settable
  <2>4. /\ Lowest[key] = 1000 * 150 /\ Widest = 1000 * 500 /\ Highest[key] = 1000 * 600
        /\ Narrowest[key] = 1000 * 150 \/ Narrowest[key] = 1000 * 200
    <3>1. key \in {"left", "right"} BY <2>1 DEF Widths
    <3> QED BY <3>1 DEF Lowest, Widest, Highest, Narrowest
  <2>5. \A pixels \in {150, 200, 500, 600} :
          /\ 1000 * pixels <= x => 1000 * pixels <= Rounded(x)
          /\ x <= 1000 * pixels => Rounded(x) <= 1000 * pixels
    BY <1>1, NearestPixel
  <2>6. /\ Lowest[key] <= Rounded(x) /\ Rounded(x) <= Highest[key]
        /\ Narrowest[key] <= Rounded(x) /\ Rounded(x) <= Widest
    BY <1>1, <2>3, <2>4, <2>5
  <2>7. Rounded(x) \in Int /\ Rounded(Rounded(x)) = Rounded(x) BY <1>1, NearestPixel
  <2>8. Kept(key, Rounded(x)) = Rounded(x) BY <1>3, <2>7 DEF Kept
  <2> QED BY <2>2, <2>6, <2>7, <2>8 DEF Storable, Settable, Within
<1> QED BY <1>2, <1>3

LEMMA DefaultsStorable == \A key \in Keys : Storable(key, Default[key])
<1>1. ASSUME NEW key \in Keys PROVE Storable(key, Default[key])
  <2>1. Settable(key, Default[key]) BY Limits DEF Settable
  <2>2. CASE key \in Sliders BY <2>1, <2>2 DEF Storable, Kept
  <2>3. CASE key \notin Sliders
    <3>1. key \in {"left", "right"} BY <2>3 DEF Keys, Widths
    <3>2. Default[key] = 260000 \/ Default[key] = 280000 BY <3>1 DEF Default
    <3>3. Rounded(Default[key]) = Default[key] BY <3>2 DEF Rounded
    <3> QED BY <2>1, <2>3, <3>3 DEF Storable, Kept
  <2> QED BY <2>2, <2>3
<1> QED BY <1>1

\* What is stored within the limits is read as it is.
LEMMA ReadWhatIsStored ==
  ASSUME SettingsInv, NEW key \in Keys
  PROVE  LoadSettings[key] = IF stored[key] = None THEN Default[key] ELSE stored[key]
<1>1. stored[key] # None => Clamp(Lowest[key], Highest[key], stored[key]) = stored[key]
  <2>1. stored[key] # None => Within(key, stored[key]) BY DEF SettingsInv, Storable, Settable
  <2>2. Lowest[key] \in Int /\ Highest[key] \in Int BY Limits
  <2> QED BY <2>1, <2>2 DEF Within, Clamp, AtMost, AtLeast
<1> QED BY <1>1 DEF LoadSettings, LoadDisplaySetting, LoadWidth, ClampSetting

LEMMA ReadAsStored ==
  ASSUME SettingsInv
  PROVE  SettingsComeBack
<1>1. ASSUME NEW key \in Keys \ refused PROVE LoadSettings[key] = Kept(key, settings[key])
  <2>1. CASE stored[key] = None
    <3>1. settings[key] = Default[key] BY <2>1 DEF SettingsInv
    <3>2. Kept(key, Default[key]) = Default[key] BY DefaultsStorable DEF Storable
    <3> QED BY <2>1, <3>1, <3>2, ReadWhatIsStored
  <2>2. CASE stored[key] # None
    <3>1. stored[key] = Kept(key, settings[key]) BY <2>2 DEF SettingsInv
    <3> QED BY <2>2, <3>1, ReadWhatIsStored
  <2> QED BY <2>1, <2>2
<1>2. ASSUME NEW side \in Widths PROVE LoadSettings[side] \in Narrowest[side] .. Widest
  <2>1. side \in Keys /\ Narrowest[side] \in Int /\ Widest \in Int BY Limits
  <2>2. Settable(side, LoadSettings[side])
    BY <2>1, ReadWhatIsStored, DefaultsStorable DEF SettingsInv, Storable
  <2> QED BY <2>1, <2>2 DEF Settable, Within
<1> QED BY <1>1, <1>2 DEF SettingsComeBack

\* Once read, the settings are those that are stored.
LEMMA SettingsRead ==
  ASSUME SettingsInv, settings' = LoadSettings, refused' = {}, UNCHANGED stored,
         menu' \in BOOLEAN, dragging' \in Widths \union {None}, dragging' # "right"
  PROVE  SettingsInv'
<1>1. ASSUME NEW key \in Keys PROVE Storable(key, settings'[key])
  BY ReadWhatIsStored, DefaultsStorable DEF SettingsInv
<1>2. settings' \in [Keys -> Int]
  <2>1. \A key \in Keys : settings'[key] \in Int BY <1>1 DEF Storable, Settable, Within
  <2>2. settings' = [key \in Keys |-> settings'[key]] BY DEF LoadSettings
  <2> QED BY <2>1, <2>2
<1>3. ASSUME NEW key \in Keys
      PROVE  IF stored'[key] = None THEN settings'[key] = Default[key]
             ELSE stored'[key] = Kept(key, settings'[key])
  <2>1. Kept(key, settings'[key]) = settings'[key] BY <1>1 DEF Storable
  <2> QED BY <2>1, ReadWhatIsStored
<1>4. \A key \in Keys : Settable(key, settings'[key]) BY <1>1 DEF Storable
<1> QED BY <1>2, <1>3, <1>4 DEF SettingsInv

\* Some of the settings are set and stored together, or refused together.
LEMMA StoreKeeps ==
  ASSUME SettingsInv, NEW keys, keys \subseteq Keys, NEW values, Store(keys, values),
         settings' \in [Keys -> Int],
         \A key \in keys : values[key] = settings'[key] /\ Settable(key, settings'[key]),
         \A key \in Keys \ keys : settings'[key] = settings[key],
         UNCHANGED <<dragging, menu>>, PanelShown' = PanelShown
  PROVE  SettingsInv'
<1>1. \A key \in Keys : Settable(key, settings'[key]) BY DEF SettingsInv
<1>2. CASE /\ stored' = [key \in Keys |-> IF key \in keys THEN Kept(key, values[key]) ELSE stored[key]]
           /\ refused' = refused \ keys
  <2>1. DOMAIN stored' = Keys /\ refused' \subseteq Keys BY <1>2 DEF SettingsInv
  <2>2. ASSUME NEW key \in keys
        PROVE  /\ stored'[key] = Kept(key, settings'[key]) /\ stored'[key] # None
               /\ Storable(key, stored'[key])
    <3>1. key \in Keys /\ stored'[key] = Kept(key, settings'[key]) BY <1>2
    <3>2. Storable(key, stored'[key]) BY <3>1, KeptStorable
    <3> QED BY <3>1, <3>2, NoneIsNoValue DEF Storable, Settable, Within
  <2>3. ASSUME NEW key \in Keys \ keys PROVE stored'[key] = stored[key] BY <1>2
  <2>4. ASSUME NEW key \in Keys, stored'[key] # None PROVE Storable(key, stored'[key])
    BY <2>2, <2>3, <2>4 DEF SettingsInv
  <2>5. ASSUME NEW key \in Keys \ refused'
        PROVE  IF stored'[key] = None THEN settings'[key] = Default[key]
               ELSE stored'[key] = Kept(key, settings'[key])
    <3>1. CASE key \in keys BY <2>2, <3>1
    <3>2. CASE key \notin keys
      <4>1. key \in Keys \ refused BY <1>2, <3>2
      <4> QED BY <2>3, <3>2, <4>1 DEF SettingsInv
    <3> QED BY <3>1, <3>2
  <2> QED BY <1>1, <2>1, <2>4, <2>5 DEF SettingsInv
<1>3. CASE UNCHANGED stored /\ refused' = refused \union keys
  <2>1. ASSUME NEW key \in Keys \ refused'
        PROVE  IF stored'[key] = None THEN settings'[key] = Default[key]
               ELSE stored'[key] = Kept(key, settings'[key])
    <3>1. key \in Keys \ refused /\ key \in Keys \ keys BY <1>3
    <3> QED BY <1>3, <3>1 DEF SettingsInv
  <2> QED BY <1>1, <1>3, <2>1 DEF SettingsInv
<1> QED BY <1>2, <1>3 DEF Store

LEMMA SetSliderKeeps ==
  ASSUME SettingsInv, NEW key \in Sliders, NEW value \in Slides, SetSlider(key, value),
         PanelShown' = PanelShown
  PROVE  SettingsInv'
<1>1. key \in Keys /\ value \in Int /\ Within(key, value)
  BY Limits, SceneConstants DEF SetSlider, InRow, Within
<1>2. settings' = [settings EXCEPT ![key] = value] /\ Store(Sliders, settings')
      /\ dragging' = dragging /\ menu' = menu
  BY DEF SetSlider, SaveDisplaySettings
<1>3. \A k \in Keys : settings'[k] = IF k = key THEN value ELSE settings[k]
  BY <1>1, <1>2 DEF SettingsInv
<1>4. settings' \in [Keys -> Int] BY <1>1, <1>2 DEF SettingsInv
<1>5. \A k \in Sliders : k \in Keys /\ k \notin Widths BY DEF Sliders, Widths, Keys
<1>6. \A k \in Sliders : Settable(k, settings'[k])
  BY <1>1, <1>3, <1>5 DEF SettingsInv, Settable
<1>7. \A k \in Keys \ Sliders : settings'[k] = settings[k] BY <1>3
<1> QED BY <1>2, <1>4, <1>6, <1>7, Limits, StoreKeeps

LEMMA ResetDisplayKeeps ==
  ASSUME SettingsInv, ResetDisplay, PanelShown' = PanelShown
  PROVE  SettingsInv'
<1>1. settings' = [key \in Keys |-> IF key \in Sliders THEN Default[key] ELSE settings[key]]
      /\ Store(Sliders, settings') /\ dragging' = dragging /\ menu' = menu
  BY DEF ResetDisplay, SaveDisplaySettings
<1>2. \A k \in Keys : settings'[k] = IF k \in Sliders THEN Default[k] ELSE settings[k]
  BY <1>1
<1>3. \A k \in Sliders : Settable(k, settings'[k])
  BY <1>2, Limits, DefaultsStorable DEF Storable
<1>4. settings' \in [Keys -> Int]
  <2>1. \A k \in Keys : settings'[k] \in Int
    BY <1>2, DefaultsStorable DEF SettingsInv, Storable, Settable, Within
  <2>2. settings' = [k \in Keys |-> settings'[k]] BY <1>1
  <2> QED BY <2>1, <2>2
<1> QED BY <1>1, <1>2, <1>3, <1>4, Limits, StoreKeeps

\* A handle stores where it was moved, not where the pointer went.
LEMMA DragKeeps ==
  ASSUME SettingsInv, NEW delta \in Moves, DragHandle(delta), PanelShown' = PanelShown
  PROVE  SettingsInv'
<1> DEFINE width == Clamp(Narrowest[dragging], Widest, settings[dragging] + delta)
           values == [settings EXCEPT ![dragging] = width]
<1>1. dragging \in Widths /\ dragging \in Keys BY Limits DEF DragHandle, SettingsInv
<1>2. settings' = values /\ Store({dragging}, values) /\ dragging' = dragging /\ menu' = menu
  BY DEF DragHandle, SaveWidth
<1>3. Settable(dragging, width)
  <2>1. settings[dragging] + delta \in Int BY <1>1, SceneConstants DEF SettingsInv
  <2> QED BY <1>1, <2>1, ClampedWidth
<1> HIDE DEF width
<1>4. \A k \in Keys : settings'[k] = IF k = dragging THEN width ELSE settings[k]
  BY <1>1, <1>2 DEF SettingsInv
<1>5. settings' \in [Keys -> Int]
  <2>1. width \in Int BY <1>3 DEF Settable, Within
  <2> QED BY <1>1, <1>2, <2>1 DEF SettingsInv
<1> HIDE DEF values
<1>6. \A k \in {dragging} : values[k] = settings'[k] /\ Settable(k, settings'[k])
  BY <1>1, <1>2, <1>3, <1>4
<1> QED BY <1>1, <1>2, <1>4, <1>5, <1>6, StoreKeeps

\* A handle is taken or let go, the menu opens or closes; the right handle only goes
\* with its panel.
LEMMA HandlesKeep ==
  ASSUME SettingsInv, UNCHANGED <<settings, stored, refused>>, menu' \in BOOLEAN,
         dragging' \in Widths \union {None}, ~PanelShown' => dragging' # "right"
  PROVE  SettingsInv'
BY DEF SettingsInv

LEMMA SettingStepKeeps ==
  ASSUME SettingsInv, SettingStep
  PROVE  SettingsInv'
<1>1. PanelShown' = PanelShown BY DEF SettingStep, areaVars, panelVars, nodeVars, PanelShown
<1>2. CASE \E key \in Sliders : \E value \in Slides : SetSlider(key, value)
  BY <1>1, <1>2, SetSliderKeeps
<1>3. CASE ResetDisplay BY <1>1, <1>3, ResetDisplayKeeps
<1>4. CASE ToggleMenu BY <1>1, <1>4, HandlesKeep DEF ToggleMenu, SettingsInv
<1>5. CASE GrabHandle("left")
  BY <1>1, <1>5, HandlesKeep DEF GrabHandle, SettingsInv, Widths
<1>6. CASE PanelShown /\ GrabHandle("right")
  BY <1>1, <1>6, HandlesKeep DEF GrabHandle, SettingsInv, Widths
<1>7. CASE \E delta \in Moves : DragHandle(delta) BY <1>1, <1>7, DragKeeps
<1>8. CASE ReleaseHandle
  <2>1. None # "right" BY NoneIsNoValue, Limits
  <2> QED BY <1>1, <1>8, <2>1, HandlesKeep DEF ReleaseHandle, SettingsInv
<1> QED BY <1>2, <1>3, <1>4, <1>5, <1>6, <1>7, <1>8 DEF SettingStep

LEMMA SettingsStay ==
  ASSUME SettingsInv, UNCHANGED settingVars, PanelShown => PanelShown'
  PROVE  SettingsInv'
BY HandlesKeep DEF settingVars, SettingsInv

-----------------------------------------------------------------------------
(***************************************************************************)
(* The scene.                                                              *)
(***************************************************************************)

Flights == [target : Targets, frames : 0 .. FlightFrames - 1]

LEMMA FlightsBegin ==
  /\ None \in Targets /\ NoFlight \in Flights
  /\ \A where \in Targets : [target |-> where, frames |-> 0] \in Flights
BY SceneConstants DEF NoFlight, Flights, Targets

\* The camera is aimed, by a target of its kind.
LEMMA AimKeeps ==
  ASSUME SceneInv, NEW where \in Targets, AimAt(where)
  PROVE  /\ target' \in Targets /\ flight' \in Flights
         /\ where = None => flight' = flight
BY FlightsBegin DEF AimAt, Aim, SceneInv, Flights

LEMMA NewSceneTyped ==
  ASSUME NEW where \in Targets, NewScene(where)
  PROVE  /\ hovered' = None /\ flight' \in Flights /\ idle' = FALSE /\ spinning' = FALSE
         /\ where = None => Landed'
BY FlightsBegin DEF NewScene, Landed, NoFlight

LEMMA SceneStepKeeps ==
  ASSUME SceneInv, DataInv, SceneStep
  PROVE  SceneInv'
<1>1. SceneShown /\ SceneShown' /\ target' = target
  BY DEF SceneStep, areaVars, SceneShown, Drawn
<1>2. CASE Frame
  <2>1. spinning' = idle /\ UNCHANGED <<crashed, hovered, idle>> BY <1>2 DEF Frame
  <2>2. flight' \in Flights
    <3>1. CASE ~Landed /\ flight' = IF flight.frames + 1 = FlightFrames THEN NoFlight
                                     ELSE [flight EXCEPT !.frames = @ + 1]
      <4>1. flight \in Flights BY DEF SceneInv, Flights
      <4>2. flight.frames \in 0 .. FlightFrames - 1 /\ flight.target \in Targets
        BY <4>1 DEF Flights
      <4>3. flight.frames + 1 # FlightFrames => flight.frames + 1 \in 0 .. FlightFrames - 1
        BY <4>2, SceneConstants
      <4>4. flight.frames + 1 # FlightFrames => [flight EXCEPT !.frames = @ + 1] \in Flights
        BY <4>1, <4>3 DEF Flights
      <4> QED BY <3>1, <4>4, FlightsBegin
    <3>2. CASE flight' = flight BY <3>2 DEF SceneInv, Flights
    <3> QED BY <1>2, <3>1, <3>2 DEF Frame
  <2> QED BY <1>1, <2>1, <2>2 DEF SceneInv, Flights
<1>3. CASE Idle BY <1>1, <1>3 DEF Idle, SceneInv
<1>4. CASE Crash
  <2>1. crashed' = TRUE /\ NewScene(None) BY <1>4 DEF Crash
  <2> QED BY <1>1, <2>1, FlightsBegin, NewSceneTyped DEF SceneInv, Flights
<1>5. CASE RetryRendering(target)
  <2>1. crashed' = FALSE /\ NewScene(target) /\ target \in Targets
    BY <1>5 DEF RetryRendering, SceneInv
  <2> QED BY <1>1, <2>1, NewSceneTyped DEF SceneInv, Flights
<1>6. CASE \E n \in Shown \union {None} : n # hovered /\ Hover(n)
  <2>1. PICK n \in Shown \union {None} : Hover(n) BY <1>6
  <2>2. Shown \subseteq Nodes BY AreaConstants, PanelConstants DEF Shown, Drawn, DataInv
  <2>3. hovered' \in Nodes \union {None} /\ UNCHANGED <<crashed, flight, idle, spinning>>
    BY <2>1, <2>2 DEF Hover
  <2> QED BY <1>1, <2>3 DEF SceneInv
<1> QED BY <1>2, <1>3, <1>4, <1>5, <1>6 DEF SceneStep

\* A scene that stays.
LEMMA SceneStays ==
  ASSUME SceneInv, UNCHANGED <<target, crashed, hovered, flight>>, SceneShown' = SceneShown,
         {idle', spinning'} \subseteq BOOLEAN
  PROVE  SceneInv'
BY DEF SceneInv, Landed

LEMMA SceneAimed ==
  ASSUME SceneInv, NEW where \in Targets, AimAt(where), SceneShown \/ where = None,
         UNCHANGED <<crashed, hovered>>, SceneShown' = SceneShown,
         {idle', spinning'} \subseteq BOOLEAN
  PROVE  SceneInv'
BY AimKeeps DEF SceneInv, Landed, Flights

LEMMA SceneReplaced ==
  ASSUME NEW where \in Targets, NewScene(where), target' \in Targets, crashed' = FALSE,
         SceneShown' \/ where = None
  PROVE  SceneInv'
BY NewSceneTyped DEF SceneInv, Flights

-----------------------------------------------------------------------------
(***************************************************************************)
(* What the user does.                                                     *)
(***************************************************************************)

LEMMA DrawnAreNodes ==
  ASSUME DataInv
  PROVE  /\ data \subseteq Nodes \ Skeletons /\ Drawn \subseteq Nodes \ Skeletons
         /\ Shown \subseteq Nodes /\ Skeletons \subseteq Nodes
         /\ \A n : Neighbours(n) \subseteq Drawn
<1>1. data \subseteq Nodes \ Skeletons /\ Skeletons \subseteq Nodes
  BY AreaConstants, PanelConstants DEF DataInv
<1>2. ASSUME NEW n, NEW x \in Neighbours(n) PROVE x \in Drawn
  <2>1. PICK edge \in DrawnAmong : {edge.source, edge.target} = {n, x} BY DEF Neighbours
  <2>2. edge.source \in Drawn /\ edge.target \in Drawn BY DEF DrawnAmong
  <2> QED BY <2>1, <2>2
<1> QED BY <1>1, <1>2 DEF Drawn, Shown

\* The panel lists nodes that are drawn.
LEMMA ListedAreDrawn == Listed(Drawn, DrawnAmong) \subseteq Drawn
<1> SUFFICES ASSUME NEW n \in Listed(Drawn, DrawnAmong) PROVE n \in Drawn OBVIOUS
<1>1. PICK t : \/ n \in First({edge.target : edge \in {x \in Outbound(Drawn, DrawnAmong) : x.type = t}})
               \/ n \in First({edge.source : edge \in {x \in Inbound(Drawn, DrawnAmong) : x.type = t}})
  BY DEF Listed
<1> QED BY <1>1 DEF First, Outbound, Inbound

LEMMA ClickKeeps ==
  ASSUME AreaInv, NEW n \in Nodes, SceneShown, HandleNodeClick(n),
         {idle', spinning'} \subseteq BOOLEAN
  PROVE  AreaInv'
<1>1. Select(n, numbering[n])
      /\ UNCHANGED <<screen, data, numbering, hidden, ghost, views, crashed, hovered, settingVars>>
  BY DEF HandleNodeClick
<1>2. screen' = "graph" /\ SceneShown' = SceneShown /\ selected' = n /\ n # None
  BY <1>1, KindOf DEF SceneShown, Drawn, Select
<1>3. PanelShown' BY <1>2 DEF PanelShown
<1>4. PanelInv'
  <2>1. numbering \in [Nodes -> Entities] BY AreaConstants DEF AreaInv, DataInv
  <2>2. numbering[n] \in Entities /\ numbering[n] # None BY <2>1, PanelConstants
  <2> QED BY <1>1, <1>2, <2>2, SelectKeeps DEF AreaInv
<1>5. SettingsInv' BY <1>1, <1>3, SettingsStay DEF AreaInv
<1>6. CASE n \in Skeletons
  <2>1. highlighted' = None /\ AimAt(ComputeCameraTarget(Skeletons, Skeletons))
    BY <1>6 DEF HandleNodeClick
  <2>2. ComputeCameraTarget(Skeletons, Skeletons) \in Targets BY PanelConstants, CameraTyped
  <2>3. SceneInv' BY <1>1, <1>2, <2>1, <2>2, SceneAimed DEF AreaInv
  <2>4. DataInv' BY <1>1, <2>1 DEF AreaInv, DataInv
  <2> QED BY <1>4, <1>5, <2>3, <2>4 DEF AreaInv
<1>7. CASE n \notin Skeletons
  <2>1. highlighted' = {n} \union Neighbours(n) /\ AimAt(ComputeCameraTarget(Drawn, highlighted'))
    BY <1>7 DEF HandleNodeClick
  <2>2. Drawn \subseteq Nodes \ Skeletons /\ Neighbours(n) \subseteq Drawn
    BY DrawnAreNodes DEF AreaInv
  <2>3. ComputeCameraTarget(Drawn, highlighted') \in Targets BY <2>2, CameraTyped
  <2>4. SceneInv' BY <1>1, <1>2, <2>1, <2>3, SceneAimed DEF AreaInv
  <2>5. highlighted' \subseteq Nodes \ Skeletons BY <1>7, <2>1, <2>2
  <2>6. DataInv' BY <1>1, <2>5 DEF AreaInv, DataInv
  <2> QED BY <1>4, <1>5, <2>4, <2>6 DEF AreaInv
<1> QED BY <1>6, <1>7

LEMMA ClickNodeKeeps ==
  ASSUME AreaInv, NEW n \in Nodes, ClickNode(n)
  PROVE  AreaInv'
BY ClickKeeps DEF ClickNode, Touch

LEMMA NavigateKeeps ==
  ASSUME AreaInv, NEW n \in Nodes, Navigate(n)
  PROVE  AreaInv'
<1>1. SceneShown BY ListedAreDrawn DEF Navigate, PanelShown, SceneShown
<1>2. {idle', spinning'} \subseteq BOOLEAN BY DEF Navigate, AreaInv, SceneInv
<1> QED BY <1>1, <1>2, ClickKeeps DEF Navigate

\* With the panel its handle goes.
LEMMA WithoutPanelKeeps ==
  ASSUME PanelInv, SettingsInv, WithoutPanel, screen' = "graph"
  PROVE  PanelInv' /\ SettingsInv' /\ highlighted' = None
<1>1. Select(None, None) /\ highlighted' = None
      /\ dragging' = (IF dragging = "right" THEN None ELSE dragging)
      /\ UNCHANGED <<settings, stored, refused, menu>>
  BY DEF WithoutPanel
<1>2. PanelInv' BY <1>1, SelectKeeps
<1>3. dragging' \in Widths \union {None} /\ dragging' # "right"
  BY <1>1, NoneIsNoValue, Limits DEF SettingsInv
<1>4. SettingsInv' BY <1>1, <1>3, HandlesKeep DEF SettingsInv
<1> QED BY <1>1, <1>2, <1>4

LEMMA OverviewTyped ==
  ASSUME NEW nodes, nodes \subseteq Nodes
  PROVE  Overview(nodes) \in Targets
BY PanelConstants, CameraTyped DEF Overview

LEMMA ClickBackgroundKeeps ==
  ASSUME AreaInv, ClickBackground
  PROVE  AreaInv'
<1>1. SceneShown /\ {idle', spinning'} \subseteq BOOLEAN
      /\ UNCHANGED <<screen, data, numbering, hidden, ghost, views, crashed, hovered>>
  BY DEF ClickBackground, Touch
<1>2. screen' = "graph" /\ screen = "graph" /\ SceneShown' = SceneShown
  BY <1>1 DEF SceneShown, Drawn
<1>3. CASE selected \in Skeletons
  <2>1. WithoutPanel /\ AimAt(Overview(data)) BY <1>3 DEF ClickBackground
  <2>2. PanelInv' /\ SettingsInv' /\ highlighted' = None
    BY <1>2, <2>1, WithoutPanelKeeps DEF AreaInv
  <2>3. Overview(data) \in Targets
    <3>1. data \subseteq Nodes BY DrawnAreNodes DEF AreaInv
    <3> QED BY <3>1, OverviewTyped
  <2>4. SceneInv' BY <1>1, <1>2, <2>1, <2>3, SceneAimed DEF AreaInv
  <2>5. DataInv' BY <1>1, <2>2 DEF AreaInv, DataInv
  <2> QED BY <2>2, <2>4, <2>5 DEF AreaInv
<1>4. CASE selected \notin Skeletons
  <2>1. UNCHANGED <<panelVars, highlighted, target, flight, settingVars>>
    BY <1>4 DEF ClickBackground
  <2>2. PanelInv' BY <1>2, <2>1, PanelStays DEF AreaInv
  <2>3. PanelShown' = PanelShown BY <1>2, <2>1 DEF PanelShown, panelVars, nodeVars
  <2>4. SettingsInv' BY <2>1, <2>3, SettingsStay DEF AreaInv
  <2>5. SceneInv' BY <1>1, <1>2, <2>1, SceneStays DEF AreaInv
  <2>6. DataInv' BY <1>1, <2>1 DEF AreaInv, DataInv
  <2> QED BY <2>2, <2>4, <2>5, <2>6 DEF AreaInv
<1> QED BY <1>3, <1>4

LEMMA SelectPathKeeps ==
  ASSUME AreaInv, NEW ids \in Paths, SelectPath(ids)
  PROVE  AreaInv'
<1>1. /\ screen = "graph" /\ highlighted' = (IF ids = {} THEN None ELSE ids)
      /\ AimAt(ComputeCameraTarget(Drawn, ids))
      /\ UNCHANGED <<screen, data, numbering, hidden, ghost, views, crashed, hovered, idle, spinning,
                     settingVars, panelVars>>
  BY DEF SelectPath
<1>2. SceneShown' = SceneShown /\ PanelShown' = PanelShown
  BY <1>1 DEF SceneShown, Drawn, PanelShown, panelVars, nodeVars
<1>3. ComputeCameraTarget(Drawn, ids) \in Targets
  <2>1. Drawn \subseteq Nodes BY DrawnAreNodes DEF AreaInv
  <2> QED BY <2>1, CameraTyped
<1>4. SceneShown \/ ComputeCameraTarget(Drawn, ids) = None
  <2>1. ~SceneShown => Drawn \intersect ids = {} BY <1>1 DEF SceneShown
  <2> QED BY <2>1 DEF ComputeCameraTarget
<1>5. SceneInv'
  <2>1. {idle', spinning'} \subseteq BOOLEAN BY <1>1 DEF AreaInv, SceneInv
  <2> QED BY <1>1, <1>2, <1>3, <1>4, <2>1, SceneAimed DEF AreaInv
<1>6. highlighted' # None => highlighted' \subseteq Nodes \ Skeletons BY <1>1, AreaConstants
<1>7. DataInv' BY <1>1, <1>6 DEF AreaInv, DataInv
<1>8. PanelInv' BY <1>1, PanelStays DEF AreaInv
<1>9. SettingsInv' BY <1>1, <1>2, SettingsStay DEF AreaInv
<1> QED BY <1>5, <1>7, <1>8, <1>9 DEF AreaInv

LEMMA ClosePanelKeeps ==
  ASSUME AreaInv, ClosePanel
  PROVE  AreaInv'
<1>1. WithoutPanel /\ screen = "graph" /\ UNCHANGED <<screen, data, numbering, hidden, ghost, views, target, sceneVars>>
  BY DEF ClosePanel, PanelShown
<1>2. PanelInv' /\ SettingsInv' /\ highlighted' = None
  BY <1>1, WithoutPanelKeeps DEF AreaInv
<1>3. SceneShown' = SceneShown BY <1>1 DEF SceneShown, Drawn
<1>4. SceneInv'
  <2>1. UNCHANGED <<target, crashed, hovered, flight, idle, spinning>> BY <1>1 DEF sceneVars
  <2>2. {idle', spinning'} \subseteq BOOLEAN BY <2>1 DEF AreaInv, SceneInv
  <2> QED BY <1>3, <2>1, <2>2, SceneStays DEF AreaInv
<1>5. DataInv' BY <1>1, <1>2 DEF AreaInv, DataInv
<1> QED BY <1>2, <1>4, <1>5 DEF AreaInv

LEMMA ClearSelectionKeeps ==
  ASSUME AreaInv, ClearSelection
  PROVE  AreaInv'
<1>1. /\ SceneShown /\ WithoutPanel /\ AimAt(None)
      /\ UNCHANGED <<screen, data, numbering, hidden, ghost, views, crashed, hovered, idle, spinning>>
  BY DEF ClearSelection
<1>2. screen' = "graph" /\ SceneShown' = SceneShown BY <1>1 DEF SceneShown, Drawn
<1>3. PanelInv' /\ SettingsInv' /\ highlighted' = None
  BY <1>1, <1>2, WithoutPanelKeeps DEF AreaInv
<1>4. SceneInv'
  <2>1. {idle', spinning'} \subseteq BOOLEAN BY <1>1 DEF AreaInv, SceneInv
  <2> QED BY <1>1, <1>2, <2>1, FlightsBegin, SceneAimed DEF AreaInv
<1>5. DataInv' BY <1>1, <1>3 DEF AreaInv, DataInv
<1> QED BY <1>3, <1>4, <1>5 DEF AreaInv

\* The switches leave everything under way as it is.
LEMMA SwitchKeeps ==
  ASSUME AreaInv, ToggleGhost \/ \E view \in {"labels", "status"} : ToggleView(view)
  PROVE  AreaInv'
<1>1. UNCHANGED <<screen, data, numbering, hidden, highlighted, target, sceneVars, settingVars, panelVars>>
  BY DEF ToggleGhost, ToggleView
<1>2. ghost' \in BOOLEAN /\ views' \subseteq {"labels", "status"}
  BY DEF ToggleGhost, ToggleView, AreaInv, DataInv
<1>3. SceneShown' = SceneShown /\ PanelShown' = PanelShown
  BY <1>1 DEF SceneShown, Drawn, PanelShown, panelVars, nodeVars
<1>4. SceneInv'
  <2>1. UNCHANGED <<target, crashed, hovered, flight, idle, spinning>> BY <1>1 DEF sceneVars
  <2>2. {idle', spinning'} \subseteq BOOLEAN BY <2>1 DEF AreaInv, SceneInv
  <2> QED BY <1>3, <2>1, <2>2, SceneStays DEF AreaInv
<1>5. DataInv' BY <1>1, <1>2 DEF AreaInv, DataInv
<1>6. PanelInv' BY <1>1, PanelStays DEF AreaInv
<1>7. SettingsInv' BY <1>1, <1>3, SettingsStay DEF AreaInv
<1> QED BY <1>4, <1>5, <1>6, <1>7 DEF AreaInv

LEMMA FilterKeeps ==
  ASSUME AreaInv, NEW hiding \in Hidings, Filter(hiding)
  PROVE  AreaInv'
<1>1. /\ screen = "graph" /\ hidden' = hiding /\ menu' = (menu /\ SceneShown')
      /\ UNCHANGED <<screen, data, numbering, ghost, views, highlighted, target, settings, stored, refused, dragging,
                     panelVars>>
  BY DEF Filter
<1>2. DataInv' BY <1>1 DEF AreaInv, DataInv
<1>3. PanelInv' BY <1>1, PanelStays DEF AreaInv
<1>4. SettingsInv'
  <2>1. menu' \in BOOLEAN BY <1>1 DEF AreaInv, SettingsInv, SceneShown
  <2>2. PanelShown' = PanelShown BY <1>1 DEF PanelShown, panelVars, nodeVars
  <2> QED BY <1>1, <2>1, <2>2, HandlesKeep DEF AreaInv, SettingsInv
<1>5. CASE SceneShown' = SceneShown
  <2>1. UNCHANGED <<target, crashed, hovered, flight, idle, spinning>>
    BY <1>1, <1>5 DEF Filter, sceneVars
  <2>2. {idle', spinning'} \subseteq BOOLEAN BY <2>1 DEF AreaInv, SceneInv
  <2>3. SceneInv' BY <1>5, <2>1, <2>2, SceneStays DEF AreaInv
  <2> QED BY <1>2, <1>3, <1>4, <2>3 DEF AreaInv
<1>6. CASE SceneShown' # SceneShown
  <2>1. NewScene(IF SceneShown' THEN target ELSE None) /\ crashed' = FALSE
    BY <1>6 DEF Filter
  <2>2. target \in Targets /\ target' \in Targets BY <1>1 DEF AreaInv, SceneInv
  <2>3. SceneInv'
    <3>1. CASE SceneShown' BY <2>1, <2>2, <3>1, SceneReplaced
    <3>2. CASE ~SceneShown' BY <2>1, <2>2, <3>2, FlightsBegin, SceneReplaced
    <3> QED BY <3>1, <3>2
  <2> QED BY <1>2, <1>3, <1>4, <2>3 DEF AreaInv
<1> QED BY <1>5, <1>6

-----------------------------------------------------------------------------
(***************************************************************************)
(* Layouts come, and the tab is left.                                      *)
(***************************************************************************)

LEMMA LoadKeeps ==
  ASSUME AreaInv, NEW keep \in BOOLEAN, Load(keep)
  PROVE  AreaInv'
<1>1. /\ screen' = "loader" /\ highlighted' = None
      /\ target' = (IF keep THEN target ELSE None)
      /\ selected' = (IF keep THEN selected ELSE None)
      /\ subject' = (IF keep THEN subject ELSE None)
      /\ NewPanel("none") /\ NewScene(None)
      /\ crashed' = FALSE /\ menu' = FALSE /\ dragging' = None
      /\ UNCHANGED <<data, numbering, hidden, ghost, views, settings, stored, refused>>
  BY DEF Load, nodeVars
<1>2. PanelInv'
  <2>1. selected' \in Nodes \union {None} /\ subject' \in Entities \union {None}
        /\ (selected' = None <=> subject' = None)
    BY <1>1 DEF AreaInv, PanelInv, PanelTypeOK
  <2> QED BY <1>1, <2>1, NewPanelKept DEF AreaInv
<1>3. SettingsInv'
  <2>1. dragging' # "right" BY <1>1, NoneIsNoValue, Limits
  <2> QED BY <1>1, <2>1, HandlesKeep DEF AreaInv
<1>4. SceneInv'
  <2>1. target' \in Targets BY <1>1, FlightsBegin DEF AreaInv, SceneInv
  <2> QED BY <1>1, <2>1, FlightsBegin, SceneReplaced
<1>5. DataInv' BY <1>1 DEF AreaInv, DataInv
<1> QED BY <1>2, <1>3, <1>4, <1>5 DEF AreaInv

LEMMA LoadedKeeps ==
  ASSUME AreaInv, Loaded
  PROVE  AreaInv'
<1>1. /\ screen = "loader" /\ screen' = "graph"
      /\ data' \in Layouts /\ numbering' \in Numberings /\ hidden' \in {{}, hidden}
      /\ target' = (IF Skeletons = {} THEN target ELSE Overview(data'))
      /\ NewScene(IF SceneShown' THEN target' ELSE None) /\ NewPanel(Kind(selected))
      /\ UNCHANGED <<ghost, views, highlighted, selected, subject, crashed, settingVars>>
  BY DEF Loaded, nodeVars
<1>2. ~SceneShown /\ ~PanelShown BY <1>1 DEF SceneShown, PanelShown
<1>3. PanelInv'
  <2>1. selected' \in Nodes \union {None} /\ subject' \in Entities \union {None}
        /\ (selected' = None <=> subject' = None)
    BY <1>1 DEF AreaInv, PanelInv, PanelTypeOK
  <2> QED BY <1>1, <2>1, NewPanelKept DEF AreaInv
<1>4. SettingsInv' BY <1>1, <1>2, SettingsStay DEF AreaInv
<1>5. SceneInv'
  <2>1. crashed' = FALSE BY <1>1, <1>2 DEF AreaInv, SceneInv
  <2>2. target' \in Targets
    <3>1. data' \subseteq Nodes BY <1>1, AreaConstants
    <3>2. Overview(data') \in Targets BY <3>1, OverviewTyped
    <3> QED BY <1>1, <3>2 DEF AreaInv, SceneInv
  <2>3. CASE SceneShown' BY <1>1, <2>1, <2>2, <2>3, SceneReplaced
  <2>4. CASE ~SceneShown' BY <1>1, <2>1, <2>2, <2>4, FlightsBegin, SceneReplaced
  <2> QED BY <2>3, <2>4
<1>6. DataInv' BY <1>1, AreaConstants DEF AreaInv, DataInv
<1> QED BY <1>3, <1>4, <1>5, <1>6 DEF AreaInv

LEMMA LeaveKeeps ==
  ASSUME AreaInv, Leave
  PROVE  AreaInv'
<1>1. /\ screen' = "loader" /\ hidden' = {} /\ ghost' = FALSE /\ views' = DefaultViews
      /\ highlighted' = None /\ target' = None /\ selected' = None /\ subject' = None
      /\ NewPanel("none") /\ NewScene(None)
      /\ crashed' = FALSE /\ menu' = FALSE /\ dragging' = None
      /\ settings' = LoadSettings /\ refused' = {} /\ UNCHANGED <<data, numbering, stored>>
  BY DEF Leave
<1>2. PanelInv' BY <1>1, NewPanelKept DEF AreaInv
<1>3. SettingsInv'
  <2>1. dragging' # "right" BY <1>1, NoneIsNoValue, Limits
  <2> QED BY <1>1, <2>1, SettingsRead DEF AreaInv
<1>4. SceneInv' BY <1>1, FlightsBegin, SceneReplaced
<1>5. DataInv' BY <1>1, AreaConstants DEF AreaInv, DataInv, DefaultViews
<1> QED BY <1>2, <1>3, <1>4, <1>5 DEF AreaInv

-----------------------------------------------------------------------------
(***************************************************************************)
(* Every step.                                                             *)
(***************************************************************************)

LEMMA StepsByThemselvesKeep ==
  ASSUME AreaInv, SceneStep \/ SettingStep \/ PanelStep
  PROVE  AreaInv'
<1>1. UNCHANGED areaVars BY DEF SceneStep, SettingStep, PanelStep
<1>2. UNCHANGED <<screen, data, numbering, hidden, ghost, views, highlighted, target>>
      /\ SceneShown' = SceneShown /\ DataInv'
  BY <1>1 DEF areaVars, SceneShown, Drawn, AreaInv, DataInv
<1>3. CASE SceneStep
  <2>1. UNCHANGED <<settingVars, panelVars>>
    BY <1>3 DEF SceneStep, Frame, Idle, Crash, RetryRendering, Hover
  <2>2. PanelShown' = PanelShown BY <1>2, <2>1 DEF PanelShown, panelVars, nodeVars
  <2>3. SceneInv' BY <1>3, SceneStepKeeps DEF AreaInv
  <2>4. PanelInv' BY <1>2, <2>1, PanelStays DEF AreaInv
  <2>5. SettingsInv' BY <2>1, <2>2, SettingsStay DEF AreaInv
  <2> QED BY <1>2, <2>3, <2>4, <2>5 DEF AreaInv
<1>4. CASE SettingStep
  <2>1. UNCHANGED <<sceneVars, panelVars>>
    BY <1>4 DEF SettingStep, SetSlider, ResetDisplay, ToggleMenu, GrabHandle, DragHandle, ReleaseHandle
  <2>2. SettingsInv' BY <1>4, SettingStepKeeps DEF AreaInv
  <2>3. PanelInv' BY <1>2, <2>1, PanelStays DEF AreaInv
  <2>4. UNCHANGED <<target, crashed, hovered, flight, idle, spinning>>
    BY <1>2, <2>1 DEF sceneVars
  <2>5. {idle', spinning'} \subseteq BOOLEAN BY <2>4 DEF AreaInv, SceneInv
  <2>6. SceneInv' BY <1>2, <2>4, <2>5, SceneStays DEF AreaInv
  <2> QED BY <1>2, <2>2, <2>3, <2>6 DEF AreaInv
<1>5. CASE PanelStep
  <2>1. UNCHANGED <<sceneVars, settingVars>> /\ selected' = selected
    BY <1>5 DEF PanelStep, nodeVars, LoadCode, HideCode, AnswerCode, DeliverCode, CopyPrompt, AnswerIssues,
                CopyEnds, CopiedFades
  <2>2. PanelShown' = PanelShown BY <1>2, <2>1 DEF PanelShown
  <2>3. PanelInv'
    <3>1. CASE PanelShown /\ LoadCode BY <1>1, <3>1, LoadCodeKeeps DEF AreaInv
    <3>2. CASE HideCode BY <1>1, <3>2, HideCodeKeeps DEF AreaInv
    <3>3. CASE \E i \in DOMAIN calls : AnswerCode(i) BY <1>1, <3>3, AnswerCodeKeeps DEF AreaInv
    <3>4. CASE \E i \in DOMAIN calls : DeliverCode(i) BY <1>1, <3>4, DeliverCodeKeeps DEF AreaInv
    <3>5. CASE (PanelShown /\ CopyPrompt) \/ AnswerIssues \/ CopyEnds \/ CopiedFades
      BY <1>1, <3>5, CalloutKeeps DEF AreaInv
    <3> QED BY <1>5, <3>1, <3>2, <3>3, <3>4, <3>5 DEF PanelStep
  <2>4. SettingsInv' BY <2>1, <2>2, SettingsStay DEF AreaInv
  <2>5. UNCHANGED <<target, crashed, hovered, flight, idle, spinning>>
    BY <1>2, <2>1 DEF sceneVars
  <2>6. {idle', spinning'} \subseteq BOOLEAN BY <2>5 DEF AreaInv, SceneInv
  <2>7. SceneInv' BY <1>2, <2>5, <2>6, SceneStays DEF AreaInv
  <2> QED BY <1>2, <2>3, <2>4, <2>7 DEF AreaInv
<1> QED BY <1>3, <1>4, <1>5

LEMMA StutterKeeps ==
  ASSUME AreaInv, UNCHANGED vars
  PROVE  AreaInv'
<1>1. UNCHANGED <<areaVars, sceneVars, settingVars, panelVars>> BY DEF vars
<1>2. UNCHANGED <<screen, data, numbering, hidden, ghost, views, highlighted, target>>
      /\ SceneShown' = SceneShown /\ DataInv'
  BY <1>1 DEF areaVars, SceneShown, Drawn, AreaInv, DataInv
<1>3. PanelShown' = PanelShown BY <1>1, <1>2 DEF PanelShown, panelVars, nodeVars
<1>4. UNCHANGED <<target, crashed, hovered, flight, idle, spinning>> BY <1>1, <1>2 DEF sceneVars
<1>5. {idle', spinning'} \subseteq BOOLEAN BY <1>4 DEF AreaInv, SceneInv
<1>6. SceneInv' BY <1>2, <1>4, <1>5, SceneStays DEF AreaInv
<1>7. PanelInv' /\ SettingsInv' BY <1>1, <1>2, <1>3, PanelStays, SettingsStay DEF AreaInv
<1> QED BY <1>2, <1>6, <1>7 DEF AreaInv

LEMMA InitArea == Init => AreaInv
<1> SUFFICES ASSUME Init PROVE AreaInv OBVIOUS
<1>1. screen = "loader" /\ data \in Layouts /\ numbering \in Numberings /\ hidden = {} /\ ghost = FALSE
      /\ views = DefaultViews /\ highlighted = None /\ target = None /\ SceneInit /\ PanelInit
  BY DEF Init
<1>2. ~SceneShown /\ ~PanelShown BY <1>1 DEF SceneShown, PanelShown
<1>3. SceneInv BY <1>1, <1>2, FlightsBegin DEF SceneInit, SceneInv, Landed, Flights
<1>4. SettingsInv
  <2>1. settings = Default /\ stored = [key \in Keys |-> None] /\ refused = {}
        /\ dragging = None /\ menu = FALSE
    BY <1>1 DEF SceneInit
  <2>2. Default \in [Keys -> Int]
    <3>1. DOMAIN Default = Keys BY Limits DEF Default
    <3>2. \A key \in Keys : Default[key] \in Int BY Limits DEF Within
    <3>3. Default = [key \in Keys |-> Default[key]] BY <3>1 DEF Default
    <3> QED BY <3>2, <3>3
  <2>3. dragging # "right" BY <2>1, NoneIsNoValue, Limits
  <2>4. \A key \in Keys : stored[key] = None /\ Settable(key, settings[key])
    BY <2>1, DefaultsStorable DEF Storable
  <2> QED BY <2>1, <2>2, <2>3, <2>4, Limits DEF SettingsInv
<1>5. PanelInv
  <2>1. selected = None /\ subject = None /\ code = None /\ codeLoading = FALSE
        /\ codeError = FALSE /\ calls = <<>> /\ crossed = FALSE /\ renumbered = FALSE /\ copied = None /\ copying = None /\ issues = "unasked"
    BY <1>1 DEF PanelInit
  <2>2. Len(calls) <= MaxCalls /\ DOMAIN calls = {} BY <2>1, NoRequests, PanelConstants
  <2>3. PanelTypeOK BY <2>1, <2>2 DEF PanelTypeOK
  <2> QED BY <2>1, <2>3, NoRequests DEF PanelInv, Steady
<1>6. DataInv BY <1>1, AreaConstants DEF DataInv, DefaultViews
<1> QED BY <1>3, <1>4, <1>5, <1>6 DEF AreaInv

\* The invariant that the others rest on: what the scene, the settings and the panel
\* hold (GraphTab.tsx:363-403, 441-476, 559-606; NodeDetailPanel.tsx:66-91).
THEOREM AreaInvariant == Spec => []AreaInv
<1>1. AreaInv /\ [Next]_vars => AreaInv'
  <2>1. SUFFICES ASSUME AreaInv, Next PROVE AreaInv' BY StutterKeeps
  <2>2. CASE \E n \in Nodes : ClickNode(n) \/ Navigate(n)
    BY <2>1, <2>2, ClickNodeKeeps, NavigateKeeps
  <2>3. CASE ClickBackground BY <2>1, <2>3, ClickBackgroundKeeps
  <2>4. CASE \E ids \in Paths : SelectPath(ids) BY <2>1, <2>4, SelectPathKeeps
  <2>5. CASE ClosePanel BY <2>1, <2>5, ClosePanelKeeps
  <2>6. CASE ClearSelection BY <2>1, <2>6, ClearSelectionKeeps
  <2>7. CASE ToggleGhost \/ \E view \in {"labels", "status"} : ToggleView(view)
    BY <2>1, <2>7, SwitchKeeps
  <2>8. CASE \E hiding \in Hidings : Filter(hiding) BY <2>1, <2>8, FilterKeeps
  <2>9. CASE \E keep \in BOOLEAN : Load(keep) BY <2>1, <2>9, LoadKeeps
  <2>10. CASE Loaded BY <2>1, <2>10, LoadedKeeps
  <2>11. CASE Leave BY <2>1, <2>11, LeaveKeeps
  <2>12. CASE SceneStep \/ SettingStep \/ PanelStep BY <2>1, <2>12, StepsByThemselvesKeep
  <2> QED BY <2>1, <2>2, <2>3, <2>4, <2>5, <2>6, <2>7, <2>8, <2>9, <2>10, <2>11, <2>12 DEF Next
<1> QED BY <1>1, InitArea, PTL DEF Spec

\* Everything holds values of its kind, without a scene there is neither tooltip, flight
\* nor error, and without a panel nothing of it (GraphTab.tsx:363-403, 454-476, 559-606).
THEOREM TypeCorrect == Spec => []TypeOK
<1>1. AreaInv => TypeOK
  <2> SUFFICES ASSUME AreaInv PROVE TypeOK OBVIOUS
  <2>1. flight.frames \in 0 .. FlightFrames - 1 /\ flight.target \in Targets
    BY DEF AreaInv, SceneInv
  <2>2. \A key \in Sliders : settings[key] \in Lowest[key] .. Highest[key]
    BY Limits DEF AreaInv, SettingsInv, Settable, Within
  <2>3. \A side \in Widths : settings[side] \in Narrowest[side] .. Widest
    BY Limits DEF AreaInv, SettingsInv, Settable, Within
  <2>4. SceneTypeOK
    BY <2>1, <2>2, <2>3 DEF SceneTypeOK, AreaInv, SceneInv, SettingsInv, Targets
  <2> QED BY <2>4 DEF TypeOK, AreaInv, SceneInv, SettingsInv, PanelInv, DataInv
<1> QED BY <1>1, AreaInvariant, PTL

\* What the user sees of the settings is what the tab comes back with, a width to the
\* pixel, unless localStorage refused to store it: what is stored is within the limits
\* of its reader; and whatever was refused, no panel comes back with a width that no drag
\* could have left (density.ts:105-134, GraphTab.tsx:33-42, 87-92, 441-450, 561-570).
THEOREM SettingsAlwaysComeBack == Spec => []SettingsComeBack
<1>1. AreaInv => SettingsComeBack BY ReadAsStored DEF AreaInv
<1> QED BY <1>1, AreaInvariant, PTL

\* Once no request for code is under way the button is free, and unless the panel moved
\* to another node during one, or came to another entity under the number it shows, the
\* code shown is that of the selected entity (NodeDetailPanel.tsx:66-91).
THEOREM CodeAlwaysSettles == Spec => []CodeSettles
<1>1. AreaInv => CodeSettles
  BY DEF AreaInv, PanelInv, PanelTypeOK, Steady, CodeSettles
<1> QED BY <1>1, AreaInvariant, PTL

-----------------------------------------------------------------------------
(***************************************************************************)
(* What is drawn.                                                          *)
(***************************************************************************)

LEMMA Thousandths ==
  ASSUME NEW product \in Nat, NEW bound \in Nat, product <= bound * 1000
  PROVE  product \div 1000 \in Nat /\ product \div 1000 <= bound
OBVIOUS

LEMMA Quotients ==
  ASSUME NEW product \in Nat, NEW divisor \in Nat \ {0}
  PROVE  product \div divisor \in Nat
OBVIOUS

LEMMA ScaledIsNat ==
  ASSUME NEW x \in Nat, NEW factor \in Nat
  PROVE  Scaled(x, factor) \in Nat
<1>1. x * factor \in Nat OBVIOUS
<1> DEFINE product == x * factor
<1>2. product \in Nat BY <1>1
<1> HIDE DEF product
<1>3. product \div 1000 \in Nat BY <1>2, Quotients
<1> QED BY <1>3 DEF Scaled, product

\* Density never brightens.
LEMMA FadeBounded ==
  ASSUME NEW count \in Nat
  PROVE  FadeFactor(count) \in Fractions
<1>1. NodeReference \in Nat /\ NodeFadeEnd \in Nat /\ NodeFadeEnd - NodeReference \in Nat \ {0}
  BY Thresholds
<1>2. CASE count <= NodeReference BY <1>1, <1>2 DEF FadeFactor, Fractions
<1>3. CASE ~(count <= NodeReference)
  <2> DEFINE over == 1000 * (count - NodeReference)
             span == NodeFadeEnd - NodeReference
  <2>1. over \in Nat /\ span \in Nat \ {0} BY <1>1, <1>3
  <2>2. FadeFactor(count) = AtMost(1000, over \div span) BY <1>3 DEF FadeFactor
  <2> HIDE DEF over, span
  <2>3. over \div span \in Nat BY <2>1, Quotients
  <2> DEFINE share == over \div span
  <2>4. share \in Nat /\ FadeFactor(count) = AtMost(1000, share) BY <2>2, <2>3
  <2> HIDE DEF share
  <2> QED BY <2>4 DEF AtMost, Fractions
<1> QED BY <1>2, <1>3

LEMMA BoostIsNat ==
  ASSUME AreaInv
  PROVE  NodeBoost(Drawn) \in Nat
<1>1. Cardinality(Drawn) \in Nat
  <2>1. Drawn \in SUBSET Nodes /\ IsFiniteSet(Nodes) BY DrawnAreNodes, FiniteDrawing, Zenon DEF AreaInv
  <2> QED BY <2>1, FS_Subset, FS_CardinalityType
<1>2. FadeFactor(Cardinality(Drawn)) \in Fractions BY <1>1, FadeBounded, Zenon
<1>3. NodeBoostScale(Cardinality(Drawn)) \in Nat
  <2> DEFINE fade == FadeFactor(Cardinality(Drawn))
             product == fade * 200
             cut == product \div 1000
  <2>1. fade \in Nat /\ fade <= 1000 BY <1>2 DEF Fractions
  <2>2. NodeBoostScale(Cardinality(Drawn)) = 1000 - cut BY DEF NodeBoostScale, Scaled
  <2> HIDE DEF fade
  <2>3. product \in Nat /\ product <= 200 * 1000 BY <2>1
  <2> HIDE DEF product
  <2>4. cut \in Nat /\ cut <= 200 BY <2>3, Thousandths
  <2> HIDE DEF cut
  <2> QED BY <2>2, <2>4
<1>4. settings.nodeGlow \in Nat
  <2>1. Within("nodeGlow", settings["nodeGlow"]) BY Limits DEF AreaInv, SettingsInv, Settable
  <2>2. Lowest["nodeGlow"] = 0 BY DEF Lowest
  <2> DEFINE glow == settings["nodeGlow"]
  <2>3. glow \in Int /\ 0 <= glow BY <2>1, <2>2 DEF Within
  <2>4. settings.nodeGlow = glow OBVIOUS
  <2> HIDE DEF glow
  <2> QED BY <2>3, <2>4
<1> QED BY <1>3, <1>4, ScaledIsNat DEF NodeBoost

LEMMA PaintedIsColor ==
  ASSUME NEW n \in Nodes, NEW byStatus
  PROVE  Painted(n, byStatus) \in Colors
<1>1. Channels[n] \in Colors /\ \A s \in DOMAIN StatusColors : StatusColors[s] \in Colors
  BY Palette
<1>2. \A status : ColorForStatus(status) \in Colors
  BY <1>1, Palette DEF ColorForStatus
<1> QED BY <1>1, <1>2 DEF Painted

LEMMA DominanceIsNat ==
  ASSUME NEW channel \in Nat, NEW other \in Nat, NEW another \in Nat
  PROVE  Dominance(channel, other, another) \in Nat
<1>1. AtLeast(other, another) \in Nat BY DEF AtLeast
<1>2. \A x \in Int : AtLeast(0, x) \in Nat BY DEF AtLeast
<1>3. channel - AtLeast(other, another) \in Int BY <1>1
<1> QED BY <1>2, <1>3 DEF Dominance

LEMMA GlowsAboveBase ==
  ASSUME NEW c \in Colors
  PROVE  NodeGlowBoost(c) - 1000 \in Nat
<1>1. c.red \in Nat /\ c.green \in Nat /\ c.blue \in Nat
  <2>1. c.red \in Fractions /\ c.green \in Fractions /\ c.blue \in Fractions BY DEF Colors
  <2>2. \A x \in Fractions : x \in Nat BY DEF Fractions
  <2> QED BY <2>1, <2>2, Zenon
<1>2. Dominance(c.blue, c.red, c.green) \in Nat /\ Dominance(c.red, c.green, c.blue) \in Nat
  BY <1>1, DominanceIsNat
<1>3. Scaled(Dominance(c.blue, c.red, c.green), 2400) \in Nat
      /\ Scaled(Dominance(c.red, c.green, c.blue), 900) \in Nat
  <2> DEFINE blue == Dominance(c.blue, c.red, c.green)
             red == Dominance(c.red, c.green, c.blue)
  <2>1. blue \in Nat /\ red \in Nat /\ 2400 \in Nat /\ 900 \in Nat BY <1>2
  <2> HIDE DEF blue, red
  <2>2. Scaled(blue, 2400) \in Nat BY <2>1, ScaledIsNat
  <2>3. Scaled(red, 900) \in Nat BY <2>1, ScaledIsNat
  <2> QED BY <2>2, <2>3 DEF blue, red
<1> QED BY <1>3 DEF NodeGlowBoost

\* A node that is lit is no darker than without any glow.
LEMMA LitAreBright ==
  ASSUME AreaInv, NEW n \in Nodes, Lit(highlighted, n)
  PROVE  /\ Strength(n, Painted(n, "status" \in views), Drawn, highlighted) \in Int
         /\ Strength(n, Painted(n, "status" \in views), Drawn, highlighted) >= 1000
<1> DEFINE glow == NodeGlowBoost(Painted(n, "status" \in views)) - 1000
<1>1. glow \in Nat BY PaintedIsColor, GlowsAboveBase
<1>2. Strength(n, Painted(n, "status" \in views), Drawn, highlighted)
        = 1000 + Scaled(glow, NodeBoost(Drawn))
  BY DEF Strength, NodeStrength
<1> HIDE DEF glow
<1>3. Scaled(glow, NodeBoost(Drawn)) \in Nat BY <1>1, BoostIsNat, ScaledIsNat
<1> QED BY <1>2, <1>3

\* There is an integer square root.
LEMMA RootBelow ==
  ASSUME NEW squared \in Nat, NEW top \in Nat, (top + 1) * (top + 1) > squared
  PROVE  \E root \in 0 .. top : /\ (root + 1) * (root + 1) > squared
                                 /\ root # 0 => root * root <= squared
<1> DEFINE Above(r) == (r + 1) * (r + 1) > squared
           above == {r \in Nat : Above(r)}
<1>1. above \subseteq Nat /\ above # {} /\ top \in above OBVIOUS
<1>2. PICK root \in above : \A r \in above : root <= r
  <2> HIDE DEF above
  <2> QED BY <1>1, LeastNumber
<1>3. root \in Nat /\ Above(root) BY <1>2
<1>4. root <= top
  <2> HIDE DEF above
  <2> QED BY <1>1, <1>2
<1>5. ASSUME root # 0 PROVE root * root <= squared
  <2>1. root - 1 \in Nat /\ ~(root <= root - 1) BY <1>3, <1>5
  <2>2. root - 1 \notin above
    <3> HIDE DEF above
    <3> QED BY <1>2, <2>1
  <2>3. ~Above(root - 1) BY <2>1, <2>2
  <2>4. (root - 1) + 1 = root BY <1>3
  <2>5. ~(root * root > squared) BY <2>3, <2>4
  <2> QED BY <1>3, <2>5
<1> QED BY <1>3, <1>4, <1>5

\* The scale of the edges is such a root, in thousandths.
LEMMA RootExists ==
  ASSUME NEW squared \in Nat, 2500 <= squared, squared <= 1000 * 1000
  PROVE  \E root \in 50 .. 1000 : root * root <= squared /\ (root + 1) * (root + 1) > squared
<1>1. (1000 + 1) * (1000 + 1) > squared BY SMT
<1>2. PICK root \in 0 .. 1000 : /\ (root + 1) * (root + 1) > squared
                                /\ root # 0 => root * root <= squared
  BY <1>1, RootBelow, SMT
<1>3. root >= 50
  <2>1. SUFFICES ASSUME root + 1 <= 50 PROVE FALSE BY SMT, <1>2
  <2>2. (root + 1) * (root + 1) <= 50 * 50 BY SMT, <1>2, <2>1
  <2> QED BY SMT, <1>2, <2>2
<1> QED BY SMT, <1>2, <1>3

LEMMA TimesMonotonic ==
  ASSUME NEW a \in Nat, NEW b \in Nat, NEW c \in Nat, a <= b
  PROVE  a * c <= b * c
<1>1. (b - a) * c \in Nat OBVIOUS
<1>2. b * c = a * c + (b - a) * c OBVIOUS
<1>3. a * c \in Nat OBVIOUS
<1> QED BY <1>1, <1>2, <1>3

LEMMA EdgesNeverBrightened ==
  ASSUME NEW count \in 0 .. Cardinality(Edges)
  PROVE  EdgeIntensityScale[count] \in Fractions
<1>1. EdgeReference \in Nat \ {0} /\ Cardinality(Edges) \in Nat
  BY Thresholds, FiniteDrawing, FS_CardinalityType
<1>2. CASE count <= EdgeReference
  <2>1. EdgeIntensityScale[count] = 1000 BY <1>2 DEF EdgeIntensityScale
  <2> QED BY <2>1 DEF Fractions
<1>3. CASE ~(count <= EdgeReference)
  <2> DEFINE quotient == (1000 * 1000 * EdgeReference) \div count
             squared == AtLeast(2500, quotient)
             Root(root) == root * root <= squared /\ (root + 1) * (root + 1) > squared
             Roots == 50 .. 1000
  <2>1. count \in Nat \ {0} /\ EdgeReference <= count BY <1>1, <1>3
  <2>2. quotient \in Nat /\ quotient <= 1000 * 1000
    <3> DEFINE product == 1000 * 1000 * EdgeReference
               q == product \div count
    <3>1. product \in Nat /\ product <= (1000 * 1000) * count BY <1>1, <2>1
    <3> HIDE DEF product
    <3>2. product = q * count + (product % count) /\ q \in Nat /\ product % count \in Nat
      BY <2>1, <3>1
    <3> HIDE DEF q
    <3>3. q <= 1000 * 1000
      <4>1. SUFFICES ASSUME 1000 * 1000 + 1 <= q PROVE FALSE BY <3>2
      <4>2. (1000 * 1000 + 1) * count <= q * count BY <2>1, <3>2, <4>1, TimesMonotonic
      <4>3. (1000 * 1000 + 1) * count = (1000 * 1000) * count + count BY <2>1
      <4>4. q * count \in Nat BY <2>1, <3>2
      <4> QED BY <2>1, <3>1, <3>2, <4>2, <4>3, <4>4
    <3> QED BY <3>2, <3>3 DEF product, q
  <2>3. EdgeIntensityScale[count] = CHOOSE root \in Roots : Root(root)
    BY <1>3, Zenon DEF EdgeIntensityScale
  <2> HIDE DEF quotient
  <2>4. squared \in Nat /\ 2500 <= squared /\ squared <= 1000 * 1000 BY <2>2 DEF AtLeast
  <2> HIDE DEF squared
  <2>5. \E root \in Roots : Root(root) BY <2>4, RootExists
  <2>6. \A root \in Roots : root \in Fractions BY DEF Fractions
  <2> HIDE DEF Root, Roots
  <2>7. EdgeIntensityScale[count] \in Roots BY <2>3, <2>5, Zenon
  <2> QED BY <2>6, <2>7, Zenon
<1> QED BY <1>2, <1>3

\* However many edges are drawn and however bright they are set, those that lead out of
\* the highlight stay below those within it.
LEMMA OthersAreDim ==
  ASSUME AreaInv, HasHighlight(highlighted), NEW edge,
         ~({edge.source, edge.target} \subseteq highlighted)
  PROVE  /\ Brightness(edge, DrawnAmong, highlighted) \in Int
         /\ Brightness(edge, DrawnAmong, highlighted) < 500
<1> DEFINE count == Cardinality(DrawnAmong)
           intensity == EdgeIntensityScale[count]
           bright == settings.edgeBrightness
<1>1. count \in 0 .. Cardinality(Edges)
  <2>1. DrawnAmong \in SUBSET Edges /\ IsFiniteSet(Edges) BY FiniteDrawing, Zenon DEF DrawnAmong
  <2>2. IsFiniteSet(DrawnAmong) /\ count <= Cardinality(Edges) BY <2>1, FS_Subset
  <2>3. count \in Nat /\ Cardinality(Edges) \in Nat BY <2>1, <2>2, FS_CardinalityType
  <2> HIDE DEF count
  <2> QED BY <2>2, <2>3
<1>2. intensity \in Nat /\ intensity <= 1000
  <2>1. intensity \in Fractions BY <1>1, EdgesNeverBrightened, Zenon
  <2> HIDE DEF intensity
  <2> QED BY <2>1 DEF Fractions
<1>3. bright \in Nat /\ bright <= 3000
  <2>1. Within("edgeBrightness", settings["edgeBrightness"]) BY Limits DEF AreaInv, SettingsInv, Settable
  <2>2. Lowest["edgeBrightness"] = 100 /\ Highest["edgeBrightness"] = 3000 BY DEF Lowest, Highest
  <2> DEFINE x == settings["edgeBrightness"]
  <2>3. x \in Int /\ 100 <= x /\ x <= 3000 BY <2>1, <2>2 DEF Within
  <2>4. bright = x BY Zenon
  <2> HIDE DEF x, bright
  <2> QED BY <2>3, <2>4
<1>4. Brightness(edge, DrawnAmong, highlighted) = Scaled(Scaled(intensity, bright), 40)
  BY DEF Brightness, EdgeStrength
<1> HIDE DEF intensity, bright
<1>5. Scaled(intensity, bright) \in Nat /\ Scaled(intensity, bright) <= 3000
  <2> DEFINE product == intensity * bright
  <2>1. product \in Nat BY <1>2, <1>3
  <2>2. product <= 1000 * bright BY <1>2, <1>3, TimesMonotonic
  <2>3. product <= 3000 * 1000 BY <1>3, <2>1, <2>2
  <2>4. Scaled(intensity, bright) = product \div 1000 BY DEF Scaled
  <2> HIDE DEF product
  <2>5. product \div 1000 \in Nat /\ product \div 1000 <= 3000 BY <2>1, <2>3, Thousandths
  <2> QED BY <2>4, <2>5
<1> DEFINE scale == Scaled(intensity, bright)
           product == scale * 40
<1>6. Brightness(edge, DrawnAmong, highlighted) = product \div 1000 BY <1>4 DEF Scaled
<1>7. scale \in Nat /\ scale <= 3000 BY <1>5
<1> HIDE DEF scale
<1>8. product \in Nat /\ product <= 120 * 1000 BY <1>7
<1> HIDE DEF product
<1>9. product \div 1000 \in Nat /\ product \div 1000 <= 120 BY <1>8, Thousandths
<1> DEFINE dim == product \div 1000
<1>10. dim \in Nat /\ dim <= 120 /\ Brightness(edge, DrawnAmong, highlighted) = dim
  BY <1>6, <1>9
<1> HIDE DEF dim
<1> QED BY <1>10

\* A selection stands out, whatever the density, the colours and the display settings
\* (lib/density.ts:9-11, NodeCloud.tsx:30-51, EdgeLines.tsx:102-104, NodeLabels.tsx).
THEOREM SelectionAlwaysStandsOut == Spec => []SelectionStandsOut
<1>1. AreaInv => SelectionStandsOut
  <2> SUFFICES ASSUME AreaInv, HasHighlight(highlighted) PROVE SelectionStandsOut
    BY DEF SelectionStandsOut
  <2>1. ASSUME NEW n \in Drawn \intersect highlighted, NEW m \in Drawn \ highlighted
        PROVE  /\ Strength(n, Painted(n, "status" \in views), Drawn, highlighted)
                    > Strength(m, Painted(m, "status" \in views), Drawn, highlighted)
               /\ \/ PointMode(Cardinality(Drawn)) \/ Size[n] # Size[m]
                  \/ NodeScale(n, highlighted, Cardinality(Drawn))
                       > NodeScale(m, highlighted, Cardinality(Drawn))
    <3>1. n \in Nodes /\ m \in Nodes BY <2>1, DrawnAreNodes DEF AreaInv
    <3>2. Lit(highlighted, n) /\ ~Lit(highlighted, m) BY <2>1 DEF Lit
    <3>3. Strength(m, Painted(m, "status" \in views), Drawn, highlighted) = 150
      BY <3>2 DEF Strength, NodeStrength
    <3>4. Size[n] \in Nat \ {0} /\ Size[m] \in Nat \ {0} BY <3>1, PlacesAndSizes, Zenon
    <3>5. ~PointMode(Cardinality(Drawn)) =>
            /\ NodeScale(n, highlighted, Cardinality(Drawn)) = Size[n] * 500
            /\ NodeScale(m, highlighted, Cardinality(Drawn)) = Size[m] * 200
      BY <3>2 DEF NodeScale
    <3>6. Size[n] = Size[m] => Size[n] * 500 > Size[m] * 200 BY <3>4
    <3> QED BY <3>1, <3>2, <3>3, <3>5, <3>6, LitAreBright
  <2> DEFINE seen == DrawnEdges(Drawn, DrawnAmong, highlighted)
             within == {edge \in seen : {edge.source, edge.target} \subseteq highlighted}
  <2>2. ASSUME NEW inside \in within, NEW other \in seen \ within
        PROVE  Brightness(inside, DrawnAmong, highlighted)
                 > Brightness(other, DrawnAmong, highlighted)
    <3>1. Brightness(inside, DrawnAmong, highlighted) = 500
      BY <2>2 DEF Brightness, EdgeStrength
    <3>2. ~({other.source, other.target} \subseteq highlighted) BY <2>2
    <3> QED BY <3>1, <3>2, OthersAreDim
  <2>3. Labelled(Drawn, highlighted) \subseteq highlighted BY DEF Labelled, Lit
  <2> QED BY <2>1, <2>2, <2>3 DEF SelectionStandsOut
<1> QED BY <1>1, AreaInvariant, PTL
================================================================================
