---------------------------- MODULE KGGraphTabProofs ----------------------------
(***************************************************************************)
(* What holds of the graph tab for any projects, entities and budgets, any *)
(* number of requests under way, and any order of their answers.           *)
(***************************************************************************)
EXTENDS KGGraphTab, FiniteSetTheorems, SequenceTheorems, TLAPS

-----------------------------------------------------------------------------
(***************************************************************************)
(* The inductive invariant.                                                *)
(***************************************************************************)

Requests == [limit : Budgets, answer : Layouts \union {Failed, None}]

\* What TypeOK says of each request and of the budget, as the kinds they are.
Kinds ==
  /\ TypeOK
  /\ flight \in Seq(Requests)
  /\ budget \in [project : Projects \union {"snapshot", None}, value : Budgets]

\* A graph of the server was cut at the limit, if it was cut at all, and the notice says
\* so unless the entities were counted in another.
CutAt(d, limit) ==
  /\ d.nodes \in {Cut(graph, limit) : graph \in ServerGraphs}
  /\ ~d.torn => Cardinality(d.nodes) = IF LimitNotice(d) THEN limit ELSE d.total

\* A tab that appears has nothing to forget.
Fresh == ~failed /\ ~refused /\ manner = "clean" /\ highlighted = None /\ unstored = None

\* The one request under way: the loader is shown, nothing can be highlighted meanwhile,
\* and what will be shown is what the budget asked for.
Asking ==
  /\ Len(flight) = 1
  /\ loading /\ ~failed /\ highlighted = None
  /\ manner = "clean" /\ mode = "live" =>
       /\ flight[1].limit = budget.value
       /\ flight[1].answer \notin {None, Failed} => CutAt(flight[1].answer, budget.value)

\* The last request has ended.
Answered ==
  /\ ~loading /\ (failed <=> refused)
  /\ failed => highlighted = None
  /\ manner = "clean" /\ mode = "live" /\ ~failed /\ data # None => CutAt(data, budget.value)
  /\ highlighted # None => highlighted \subseteq Ids(data.nodes)

RequestsInv ==
  /\ ~mounted => Fresh
  /\ mounted /\ manner # "overlap" => IF flight = <<>> THEN Answered ELSE Asking

TabInv == Kinds /\ RequestsInv /\ BudgetOfProject

-----------------------------------------------------------------------------
(***************************************************************************)
(* Budgets.                                                                *)
(***************************************************************************)

LEMMA DefaultIsBudget == DefaultBudget \in Budgets
<1> DEFINE k == MaxBudget \div Step
<1>1. Step \in Nat \ {0} /\ MaxBudget \in Nat /\ MaxBudget >= Step /\ MaxBudget % Step = 0
  BY GraphTabConstants
<1>2. k \in Nat /\ MaxBudget = Step * k + (MaxBudget % Step) BY <1>1
<1>3. MaxBudget = k * Step BY <1>1, <1>2
<1>4. k >= 1 BY <1>1, <1>2, <1>3
<1>5. k \in 1 .. k BY <1>2, <1>4
<1> QED BY <1>3, <1>5 DEF DefaultBudget, Budgets

\* A number is rounded to a step.
LEMMA SteppedIsMultiple ==
  ASSUME NEW draft \in Int
  PROVE  \E k \in Int : Stepped(draft) = k * Step
<1>1. 2 * draft + Step \in Int /\ 2 * Step \in Nat \ {0} BY GraphTabConstants
<1>2. (2 * draft + Step) \div (2 * Step) \in Int BY <1>1
<1> QED BY <1>2 DEF Stepped

LEMMA MultipleIsBudget ==
  ASSUME NEW k \in Int, Step <= k * Step, k * Step <= MaxBudget
  PROVE  k * Step \in Budgets
<1> DEFINE most == MaxBudget \div Step
<1>1. Step \in Nat \ {0} /\ MaxBudget \in Nat BY GraphTabConstants
<1>2. most \in Nat /\ MaxBudget = Step * most + (MaxBudget % Step) /\ MaxBudget % Step \in 0 .. Step - 1
  BY <1>1
<1>3. k >= 1 BY <1>1
<1>4. k * Step < (most + 1) * Step BY <1>1, <1>2
<1>5. k <= most BY <1>1, <1>2, <1>4
<1>6. k \in 1 .. most BY <1>2, <1>3, <1>5
<1> QED BY <1>6 DEF Budgets

\* Whatever is typed, the budget is a positive number of steps within the maximum.
LEMMA ClampedIsBudget ==
  ASSUME NEW draft \in Drafts
  PROVE  ClampNodeBudget(draft) \in Budgets
<1>1. Step \in Nat \ {0} /\ MaxBudget \in Nat /\ MaxBudget >= Step BY GraphTabConstants
<1>2. MaxBudget \in Budgets BY DefaultIsBudget DEF DefaultBudget
<1>3. CASE draft = None BY <1>2, <1>3 DEF ClampNodeBudget, DefaultBudget
<1>4. CASE draft # None
  <2>1. draft \in Int BY <1>4, GraphTabConstants
  <2>2. PICK k \in Int : Stepped(draft) = k * Step BY <2>1, SteppedIsMultiple
  <2>3. 1 * Step \in Budgets BY <1>1, MultipleIsBudget
  <2>4. CASE Stepped(draft) < Step
    BY <1>1, <1>4, <2>3, <2>4 DEF ClampNodeBudget
  <2>5. CASE ~(Stepped(draft) < Step) /\ Stepped(draft) > MaxBudget
    BY <1>2, <1>4, <2>5 DEF ClampNodeBudget
  <2>6. CASE ~(Stepped(draft) < Step) /\ ~(Stepped(draft) > MaxBudget)
    <3>1. k * Step \in Int BY <1>1
    <3>2. Step <= k * Step /\ k * Step <= MaxBudget BY <1>1, <2>2, <2>6, <3>1
    <3>3. k * Step \in Budgets BY <3>2, MultipleIsBudget
    <3> QED BY <1>4, <2>2, <2>6, <3>3 DEF ClampNodeBudget
  <2> QED BY <2>4, <2>5, <2>6
<1> QED BY <1>3, <1>4

LEMMA BudgetsAreNumbers == Budgets \subseteq Nat /\ None \notin Budgets
<1>1. Step \in Nat \ {0} /\ MaxBudget \in Nat /\ None \notin Int BY GraphTabConstants
<1>2. MaxBudget \div Step \in Nat BY <1>1
<1>3. \A k \in 1 .. MaxBudget \div Step : k * Step \in Nat BY <1>1, <1>2
<1> QED BY <1>1, <1>3 DEF Budgets

-----------------------------------------------------------------------------
(***************************************************************************)
(* Layouts: what the server numbers, and what it cuts off.                 *)
(***************************************************************************)

LEMMA LeastNumber ==
  ASSUME NEW T, T \subseteq Nat, T # {}
  PROVE  \E x \in T : \A y \in T : x <= y
<1>1. PICK x \in T : \A y \in T : <<y, x>> \notin OpToRel(<, Nat)
  BY WFMin, NatLessThanWellFounded
<1>2. ASSUME NEW y \in T PROVE x <= y
  <2>1. ~(y < x) BY <1>1 DEF OpToRel
  <2> QED BY <2>1
<1> QED BY <1>2

LEMMA RenderIdsOf ==
  ASSUME NEW nodes, nodes \subseteq Entities, NEW e \in Nat
  PROVE  /\ IsFiniteSet(nodes) /\ RenderId(nodes, e) \in Nat
         /\ IsFiniteSet({x \in nodes : x < e})
<1>1. IsFiniteSet(nodes) BY GraphTabConstants, FS_Subset
<1>2. IsFiniteSet({x \in nodes : x < e}) BY <1>1, FS_Subset
<1> QED BY <1>1, <1>2, FS_CardinalityType DEF RenderId

\* The numbers follow the order of the ids.
LEMMA RenderIdsOrdered ==
  ASSUME NEW nodes, nodes \subseteq Entities, NEW d \in nodes, NEW e \in nodes, d < e
  PROVE  RenderId(nodes, d) < RenderId(nodes, e)
<1>1. nodes \subseteq Nat BY GraphTabConstants
<1> DEFINE before == {x \in nodes : x < d}
           until == {x \in nodes : x < e}
<1>2. IsFiniteSet(until) BY <1>1, RenderIdsOf
<1>3. \A x \in Nat : x < d => x < e BY <1>1
<1>4. before \in SUBSET until /\ before # until
  <2>1. before \subseteq until BY <1>1, <1>3
  <2>2. d \in until /\ ~(d < d) BY <1>1
  <2>3. d \notin before BY <2>2
  <2> QED BY <2>1, <2>2, <2>3
<1>5. Cardinality(before) \in Nat /\ Cardinality(until) \in Nat
  BY <1>1, <1>2, RenderIdsOf, FS_CardinalityType
<1>6. Cardinality(before) < Cardinality(until) BY <1>2, <1>4, <1>5, FS_Subset
<1> QED BY <1>6 DEF RenderId

\* What a live server sends of more than it may: as many as it may.
LEMMA CutCounts ==
  ASSUME NEW nodes, nodes \subseteq Entities, NEW limit \in Nat,
         {e \in nodes : RenderId(nodes, e) < limit} # nodes
  PROVE  Cardinality({e \in nodes : RenderId(nodes, e) < limit}) = limit
<1> DEFINE sent == {e \in nodes : RenderId(nodes, e) < limit}
           left == nodes \ sent
<1>1. nodes \subseteq Nat /\ IsFiniteSet(nodes) BY GraphTabConstants, FS_Subset
<1>2. \A e \in nodes : RenderId(nodes, e) \in Nat BY <1>1, RenderIdsOf
<1>3. IsFiniteSet(sent) /\ Cardinality(sent) \in Nat BY <1>1, FS_Subset, FS_CardinalityType
<1>4. PICK m \in left : \A y \in left : m <= y
  <2>1. left \subseteq Nat /\ left # {} BY <1>1
  <2> QED BY <2>1, LeastNumber
<1>5. m \in nodes /\ m \in Nat /\ RenderId(nodes, m) >= limit BY <1>1, <1>2, <1>4
<1>6. sent = {x \in nodes : x < m}
  <2>1. ASSUME NEW x \in sent PROVE x < m
    <3>1. x \in nodes /\ x \in Nat /\ RenderId(nodes, x) < limit BY <1>1
    <3>2. x # m BY <1>2, <1>5, <3>1
    <3>3. m < x => RenderId(nodes, m) < RenderId(nodes, x) BY <1>5, <3>1, RenderIdsOrdered
    <3>4. RenderId(nodes, m) \in Nat /\ RenderId(nodes, x) \in Nat BY <1>2, <1>5, <3>1
    <3> QED BY <1>5, <3>1, <3>2, <3>3, <3>4
  <2>2. ASSUME NEW x \in nodes, x < m PROVE x \in sent
    <3>1. x \notin left BY <1>1, <1>4, <1>5, <2>2
    <3> QED BY <3>1
  <2> QED BY <2>1, <2>2
<1>7. Cardinality(sent) >= limit BY <1>5, <1>6 DEF RenderId
<1>8. Cardinality(sent) <= limit
  <2>1. CASE sent = {}
    <3>1. Cardinality(sent) = 0 BY <2>1, FS_EmptySet
    <3> QED BY <3>1
  <2>2. CASE sent # {}
    <3> DEFINE short == {limit - RenderId(nodes, e) : e \in sent}
    <3>1. short \subseteq Nat /\ short # {}
      <4>1. \A e \in sent : RenderId(nodes, e) \in Nat /\ RenderId(nodes, e) < limit BY <1>2
      <4> HIDE DEF sent
      <4> QED BY <2>2, <4>1
    <3>2. PICK least \in short : \A y \in short : least <= y BY <3>1, LeastNumber
    <3>3. PICK last \in sent : least = limit - RenderId(nodes, last) BY <3>2
    <3>4. last \in nodes /\ last \in Nat /\ RenderId(nodes, last) \in Nat
          /\ RenderId(nodes, last) < limit
      BY <1>1, <1>2, <3>3
    <3>5. ASSUME NEW x \in sent PROVE ~(last < x)
      <4>1. x \in nodes /\ RenderId(nodes, x) \in Nat BY <1>2
      <4>2. least <= limit - RenderId(nodes, x) BY <3>2, <3>5
      <4>3. RenderId(nodes, x) <= RenderId(nodes, last) BY <3>3, <3>4, <4>1, <4>2
      <4>4. last < x => RenderId(nodes, last) < RenderId(nodes, x)
        BY <3>4, <4>1, RenderIdsOrdered
      <4> QED BY <3>4, <4>1, <4>3, <4>4
    <3>6. {x \in nodes : x < last} = sent \ {last}
      <4>1. \A x \in nodes : x < last => x \in sent
        <5>1. ASSUME NEW x \in nodes, x < last PROVE x \in sent
          <6>1. RenderId(nodes, x) < RenderId(nodes, last) BY <3>4, <5>1, RenderIdsOrdered
          <6>2. RenderId(nodes, x) \in Nat BY <1>2
          <6> QED BY <3>4, <6>1, <6>2
        <5> QED BY <5>1
      <4>2. \A x \in sent : x \in nodes /\ x \in Nat /\ (x < last \/ x = last)
        BY <1>1, <3>4, <3>5
      <4>3. last \in sent /\ ~(last < last) BY <3>3, <3>4
      <4>4. sent \subseteq nodes OBVIOUS
      <4> HIDE DEF sent
      <4> QED BY <4>1, <4>2, <4>3, <4>4
    <3>7. Cardinality(sent \ {last}) = Cardinality(sent) - 1
      BY <1>3, <3>3, FS_RemoveElement
    <3>8. RenderId(nodes, last) = Cardinality(sent) - 1 BY <3>6, <3>7 DEF RenderId
    <3> QED BY <1>3, <3>4, <3>8
  <2> QED BY <2>1, <2>2
<1> QED BY <1>3, <1>7, <1>8

\* What the server sends has its edges among its nodes.
LEMMA OutcomeTyped ==
  ASSUME NEW limit, NEW answer \in Outcomes(limit)
  PROVE  answer \in Layouts \union {Failed}
<1>1. ASSUME NEW graph \in ServerGraphs
      PROVE  Cardinality(graph) \in 0 .. Cardinality(Entities) /\ graph \subseteq Entities
  <2>1. graph \subseteq Entities /\ IsFiniteSet(Entities) BY GraphTabConstants
  <2>2. IsFiniteSet(graph) /\ Cardinality(graph) <= Cardinality(Entities) BY <2>1, FS_Subset
  <2>3. Cardinality(graph) \in Nat /\ Cardinality(Entities) \in Nat
    BY <2>1, <2>2, FS_CardinalityType
  <2> QED BY <2>1, <2>2, <2>3
<1>2. ASSUME NEW counted \in ServerGraphs, NEW chosen \in ServerGraphs, NEW joined \in ServerGraphs
      PROVE  Layout(limit, counted, chosen, joined) \in Layouts
  <2> DEFINE nodes == Cut(chosen, limit)
             edges == EdgesAmong(nodes \intersect joined)
  <2>1. nodes \subseteq Entities BY <1>1 DEF Cut
  <2>2. edges \subseteq Edges /\ edges \subseteq EdgesAmong(nodes) BY DEF EdgesAmong
  <2>3. Cardinality(counted) \in 0 .. Cardinality(Entities) BY <1>1
  <2>4. Layout(limit, counted, chosen, joined) =
          [nodes |-> nodes, edges |-> edges, total |-> Cardinality(counted),
           torn |-> counted # chosen]
    BY DEF Layout
  <2> HIDE DEF nodes, edges
  <2> QED BY <2>1, <2>2, <2>3, <2>4 DEF Layouts
<1>3. ASSUME NEW graph \in ServerGraphs PROVE Snapshot(graph) \in Layouts
  <2>1. EdgesAmong(graph) \subseteq Edges BY DEF EdgesAmong
  <2> QED BY <1>1, <2>1 DEF Snapshot, Layouts
<1>4. CASE answer = Failed BY <1>4
<1>5. CASE mode = "static" /\ answer \in {Snapshot(graph) : graph \in ServerGraphs}
  BY <1>3, <1>5
<1>6. CASE answer \in {Layout(limit, counted, chosen, joined) :
                         counted, chosen, joined \in ServerGraphs}
  BY <1>2, <1>6
<1> QED BY <1>4, <1>5, <1>6 DEF Outcomes

\* A live server cuts one of its graphs; the notice is right where it counted that one.
LEMMA OutcomeCut ==
  ASSUME mode = "live", NEW limit \in Budgets, NEW answer \in Outcomes(limit),
         answer # Failed, answer # None
  PROVE  CutAt(answer, limit)
<1>1. PICK counted \in ServerGraphs, chosen \in ServerGraphs, joined \in ServerGraphs :
        answer = Layout(limit, counted, chosen, joined)
  BY DEF Outcomes
<1> DEFINE sent == {e \in chosen : RenderId(chosen, e) < limit}
<1>2. /\ answer.nodes = sent /\ answer.total = Cardinality(counted)
      /\ answer.torn = (counted # chosen) /\ sent = Cut(chosen, limit)
  BY <1>1 DEF Layout, Cut
<1>3. chosen \subseteq Entities BY GraphTabConstants
<1>4. IsFiniteSet(chosen) /\ Cardinality(chosen) \in Nat
  BY <1>3, GraphTabConstants, FS_Subset, FS_CardinalityType
<1>5. IsFiniteSet(sent) /\ Cardinality(sent) \in Nat /\ Cardinality(sent) <= Cardinality(chosen)
  BY <1>4, FS_Subset, FS_CardinalityType
<1>6. limit \in Nat BY BudgetsAreNumbers
<1>7. ASSUME counted = chosen
      PROVE  Cardinality(sent) = IF LimitNotice(answer) THEN limit ELSE answer.total
  <2>1. answer.total = Cardinality(chosen) BY <1>2, <1>7
  <2>2. CASE sent = chosen
    <3>1. ~(Cardinality(chosen) > Cardinality(sent)) BY <1>4, <2>2
    <3>2. ~LimitNotice(answer) BY <1>2, <2>1, <3>1 DEF LimitNotice
    <3> QED BY <2>1, <2>2, <3>2
  <2>3. CASE sent # chosen
    <3>1. Cardinality(sent) = limit BY <1>3, <1>6, <2>3, CutCounts
    <3>2. Cardinality(sent) # Cardinality(chosen)
      <4>1. sent \in SUBSET chosen OBVIOUS
      <4> QED BY <1>4, <2>3, <4>1, FS_Subset
    <3>3. Cardinality(sent) < Cardinality(chosen) BY <1>4, <1>5, <3>2
    <3>4. LimitNotice(answer) BY <1>2, <1>4, <1>5, <2>1, <3>3 DEF LimitNotice
    <3> QED BY <3>1, <3>4
  <2> QED BY <2>2, <2>3
<1> HIDE DEF sent
<1> QED BY <1>2, <1>7 DEF CutAt

-----------------------------------------------------------------------------
(***************************************************************************)
(* Requests, as a sequence.                                                *)
(***************************************************************************)

LEMMA RequestTyped ==
  ASSUME NEW s \in Seq(Requests)
  PROVE  /\ Len(s) \in Nat /\ DOMAIN s = 1 .. Len(s)
         /\ \A i \in DOMAIN s : /\ s[i] \in Requests /\ s[i].limit \in Budgets
                                /\ s[i].answer \in Layouts \union {Failed, None}
<1>1. Len(s) \in Nat /\ DOMAIN s = 1 .. Len(s) BY LenProperties
<1>2. \A i \in DOMAIN s : s[i] \in Requests BY <1>1, ElementOfSeq
<1> QED BY <1>1, <1>2 DEF Requests

LEMMA Started ==
  ASSUME NEW s \in Seq(Requests), NEW limits \in Seq(Budgets)
  PROVE  LET new == [i \in DOMAIN limits |-> [limit |-> limits[i], answer |-> None]] IN
         /\ s \o new \in Seq(Requests) /\ Len(s \o new) = Len(s) + Len(limits)
         /\ s = <<>> => s \o new = new
         /\ Len(new) = Len(limits) /\ new \in Seq(Requests)
<1> DEFINE new == [i \in DOMAIN limits |-> [limit |-> limits[i], answer |-> None]]
<1>1. Len(limits) \in Nat /\ DOMAIN limits = 1 .. Len(limits) BY LenProperties
<1>2. \A i \in 1 .. Len(limits) : limits[i] \in Budgets BY <1>1, ElementOfSeq
<1>3. new \in [1 .. Len(limits) -> Requests] BY <1>1, <1>2 DEF Requests
<1>4. new \in Seq(Requests) /\ Len(new) = Len(limits)
  <2>1. new \in Seq(Requests) BY <1>1, <1>3, SeqDef
  <2>2. DOMAIN new = 1 .. Len(limits) BY <1>1
  <2> HIDE DEF new
  <2> QED BY <1>1, <2>1, <2>2, LenProperties
<1> HIDE DEF new
<1>5. s \o new \in Seq(Requests) /\ Len(s \o new) = Len(s) + Len(new)
  BY <1>4, ConcatProperties
<1>6. s = <<>> => s \o new = new BY <1>4, ConcatEmptySeq
<1> QED BY <1>4, <1>5, <1>6 DEF new

\* What is left when one request has ended.
LEMMA Remaining ==
  ASSUME NEW s \in Seq(Requests), NEW i \in DOMAIN s
  PROVE  /\ Without(s, i) \in Seq(Requests) /\ Len(Without(s, i)) = Len(s) - 1
         /\ Len(s) = 1 => i = 1 /\ Without(s, i) = <<>>
<1>1. Len(s) \in Nat /\ i \in 1 .. Len(s) BY LenProperties
<1> DEFINE before == SubSeq(s, 1, i - 1)
           after == SubSeq(s, i + 1, Len(s))
<1>2. before \in Seq(Requests) /\ Len(before) = i - 1
  <2>1. CASE i = 1
    <3>1. before = <<>> BY <2>1, SubSeqEmpty
    <3> QED BY <2>1, <3>1, EmptySeq
  <2>2. CASE i # 1
    <3>1. 1 \in 1 .. Len(s) + 1 /\ i - 1 \in 0 .. Len(s) /\ 1 <= i - 1 BY <1>1, <2>2
    <3> QED BY <1>1, <3>1, SubSeqProperties
  <2> QED BY <2>1, <2>2
<1>3. after \in Seq(Requests) /\ Len(after) = Len(s) - i
  <2>1. CASE i = Len(s)
    <3>1. after = <<>> BY <1>1, <2>1, SubSeqEmpty
    <3> QED BY <1>1, <2>1, <3>1, EmptySeq
  <2>2. CASE i # Len(s)
    <3>1. i + 1 \in 1 .. Len(s) + 1 /\ Len(s) \in i .. Len(s) /\ i + 1 <= Len(s) BY <1>1, <2>2
    <3> QED BY <1>1, <3>1, SubSeqProperties
  <2> QED BY <2>1, <2>2
<1> HIDE DEF before, after
<1>4. before \o after \in Seq(Requests) /\ Len(before \o after) = Len(before) + Len(after)
  BY <1>2, <1>3, ConcatProperties
<1>5. Without(s, i) = before \o after BY DEF Without, before, after
<1>6. Len(Without(s, i)) = Len(s) - 1
  <2>1. i \in Int /\ Len(s) \in Int BY <1>1
  <2>2. Len(Without(s, i)) = (i - 1) + (Len(s) - i) BY <1>2, <1>3, <1>4, <1>5
  <2> QED BY <2>1, <2>2
<1>7. Len(s) = 1 => Without(s, i) = <<>>
  <2>1. Len(s) = 1 => Len(Without(s, i)) = 0 BY <1>6
  <2> QED BY <1>4, <1>5, <2>1, EmptySeq
<1> QED BY <1>1, <1>4, <1>5, <1>6, <1>7

-----------------------------------------------------------------------------
(***************************************************************************)
(* The kinds of steps.                                                     *)
(***************************************************************************)

LEMMA InitTab == Init => TabInv
<1> SUFFICES ASSUME Init PROVE TabInv
  OBVIOUS
<1>1. flight = <<>> /\ <<>> \in Seq(Requests) /\ Len(<<>>) = 0 /\ DOMAIN <<>> = {}
  BY EmptySeq DEF Init
<1>2. budget \in [project : Projects \union {"snapshot", None}, value : Budgets]
  BY DefaultIsBudget DEF Init
<1>3. MaxFlight \in Nat BY GraphTabConstants
<1>4. saved \in [Projects \union {"snapshot"} -> Budgets \union {None}] BY DEF Init
<1>5. /\ budget.project \in Projects \union {"snapshot", None} /\ budget.value \in Budgets
      /\ Len(flight) <= MaxFlight
  BY <1>1, <1>2, <1>3
<1>6. Kinds BY <1>1, <1>2, <1>4, <1>5 DEF Init, Kinds, TypeOK
<1> QED BY <1>6 DEF Init, TabInv, RequestsInv, Fresh, BudgetOfProject

\* Where the graph is drawn nothing is awaited, and there is a layout.
LEMMA GraphShown ==
  ASSUME TypeOK, OnGraph
  PROVE  mounted /\ ~loading /\ ~failed /\ ProjectKey(project) # None
         /\ data # None /\ data \in Layouts /\ data.nodes \subseteq Entities
BY DEF TypeOK, OnGraph, Screen, Layouts

LEMMA IdsAreNumbers ==
  ASSUME NEW nodes, nodes \subseteq Entities
  PROVE  /\ Ids(nodes) \subseteq Nat
         /\ \A e \in nodes : RenderId(nodes, e) \in Ids(nodes) /\ RenderId(nodes, e) \in Nat
<1>1. \A e \in nodes : RenderId(nodes, e) \in Nat BY RenderIdsOf, GraphTabConstants
<1> QED BY <1>1 DEF Ids

\* Selecting and highlighting, of what is drawn.
LEMMA Selecting ==
  ASSUME TabInv, OnGraph, NoFetch, UserStays, UNCHANGED filterVars, path' \in BOOLEAN,
         selected' # None => /\ selected'.id \in Nat \union {Skeleton}
                             /\ selected'.entity \in Entities \union {Skeleton},
         highlighted' # None => highlighted' \subseteq Ids(data.nodes)
  PROVE  TabInv'
<1>1. Kinds /\ TypeOK /\ RequestsInv /\ BudgetOfProject BY DEF TabInv, Kinds
<1>2. mounted /\ ~loading /\ ~failed /\ data.nodes \subseteq Entities BY <1>1, GraphShown
<1>3. /\ UNCHANGED <<mode, mounted, project, data, saved, budget, unstored, flight, loading, failed,
                     refused, manner, labels, types, statuses, missed>>
  BY DEF NoFetch, UserStays, requestVars, filterVars
<1>4. highlighted' # None => highlighted' \subseteq Nat BY <1>2, IdsAreNumbers
<1>5. Kinds' BY <1>1, <1>2, <1>3, <1>4 DEF Kinds, TypeOK
<1>6. RequestsInv'
  <2>1. manner # "overlap" => flight = <<>> /\ Answered BY <1>1, <1>2 DEF RequestsInv, Asking
  <2>2. manner # "overlap" => Answered'
    BY <1>2, <1>3, <2>1 DEF Answered, CutAt, LimitNotice, Ids, RenderId
  <2> QED BY <1>2, <1>3, <2>1, <2>2 DEF RequestsInv
<1>7. BudgetOfProject'
  BY <1>1, <1>3 DEF BudgetOfProject, ProjectKey, LoadNodeBudget
<1> QED BY <1>5, <1>6, <1>7 DEF TabInv

LEMMA Filtering ==
  ASSUME TabInv, OnGraph, NoFetch, UserStays, UNCHANGED selectionVars,
         labels' \subseteq Labels, types' \subseteq Types, statuses' \subseteq StatusFilters,
         missed' \in BOOLEAN
  PROVE  TabInv'
<1>1. Kinds /\ TypeOK /\ RequestsInv /\ BudgetOfProject BY DEF TabInv, Kinds
<1>2. mounted BY DEF OnGraph
<1>3. /\ UNCHANGED <<mode, mounted, project, data, saved, budget, unstored, flight, loading, failed,
                     refused, manner, selected, highlighted, path>>
  BY DEF NoFetch, UserStays, requestVars, selectionVars
<1>4. Kinds' BY <1>1, <1>2, <1>3 DEF Kinds, TypeOK
<1>5. RequestsInv'
  BY <1>1, <1>3 DEF RequestsInv, Fresh, Asking, Answered, CutAt, LimitNotice, Ids, RenderId
<1>6. BudgetOfProject'
  BY <1>1, <1>3 DEF BudgetOfProject, ProjectKey, LoadNodeBudget
<1> QED BY <1>4, <1>5, <1>6 DEF TabInv

\* A request starts, and a second one beside it only with the manner saying so.
LEMMA Fetching ==
  ASSUME TabInv, NEW limits \in Seq(Budgets), Start(limits), mounted',
         UNCHANGED <<mode, data, filterVars>>,
         project' \in Projects \union {None},
         budget' \in [project : Projects \union {"snapshot", None}, value : Budgets],
         saved' \in [Projects \union {"snapshot"} -> Budgets \union {None}],
         unstored' \in Budgets \union {None},
         selected' \in {selected, None}, highlighted' \in {highlighted, None}, path' \in BOOLEAN,
         manner' \in {"clean", "retry", "overlap"},
         manner' # "overlap" =>
           /\ flight = <<>> /\ Len(limits) = 1 /\ highlighted' = None
           /\ manner' = "clean" => limits[1] = budget'.value,
         BudgetOfProject'
  PROVE  TabInv'
<1>1. Kinds /\ TypeOK /\ RequestsInv BY DEF TabInv, Kinds
<1> DEFINE new == [i \in DOMAIN limits |-> [limit |-> limits[i], answer |-> None]]
<1>2. /\ UNCHANGED <<mode, data, labels, types, statuses, missed>>
      /\ flight' = flight \o new /\ Len(flight) + Len(limits) <= MaxFlight
      /\ loading' = TRUE /\ failed' = FALSE /\ refused' = FALSE
  BY DEF Start, filterVars
<1>3. flight \in Seq(Requests) BY <1>1 DEF Kinds
<1>4. /\ flight' \in Seq(Requests) /\ Len(flight') = Len(flight) + Len(limits)
      /\ flight = <<>> => flight' = new
      /\ Len(new) = Len(limits)
  BY <1>2, <1>3, Started
<1>5. \A i \in DOMAIN flight' : flight'[i].limit \in Budgets
                                /\ flight'[i].answer \in Layouts \union {Failed, None}
  BY <1>4, RequestTyped
<1>6. Len(limits) = 1 => new[1] = [limit |-> limits[1], answer |-> None]
  <2>1. Len(limits) = 1 => 1 \in DOMAIN limits BY LenProperties
  <2> QED BY <2>1
<1> HIDE DEF new
<1>7. Kinds' BY <1>1, <1>2, <1>4, <1>5 DEF Kinds, TypeOK
<1>8. RequestsInv'
  <2> SUFFICES ASSUME manner' # "overlap" PROVE flight' # <<>> /\ Asking'
    BY DEF RequestsInv
  <2>1. flight' = new /\ Len(flight') = 1 BY <1>4
  <2>2. flight'[1].limit = limits[1] /\ flight'[1].answer = None BY <1>4, <1>6, <2>1
  <2>3. flight' # <<>>
    <3>1. Len(<<>>) = 0 BY EmptySeq
    <3>2. Len(flight') # 0 BY <2>1
    <3> QED BY <3>1, <3>2, Zenon
  <2> QED BY <1>2, <2>1, <2>2, <2>3 DEF Asking
<1> QED BY <1>7, <1>8 DEF TabInv

LEMMA AnswerStep ==
  ASSUME TabInv, NEW i \in DOMAIN flight, Answer(i)
  PROVE  TabInv'
<1>1. Kinds /\ TypeOK /\ RequestsInv /\ BudgetOfProject BY DEF TabInv, Kinds
<1>2. PICK answer \in Outcomes(flight[i].limit) : flight' = [flight EXCEPT ![i].answer = answer]
  BY DEF Answer
<1>3. /\ UNCHANGED <<mode, saved, mounted, project, budget, unstored, loading, failed, refused, manner,
                     data, labels, types, statuses, missed, selected, highlighted, path>>
  BY DEF Answer, filterVars, selectionVars
<1>4. /\ flight \in Seq(Requests) /\ Len(flight) \in Nat /\ DOMAIN flight = 1 .. Len(flight)
      /\ flight[i] \in Requests /\ flight[i].limit \in Budgets
  BY <1>1, RequestTyped DEF Kinds
<1>5. answer \in Layouts \union {Failed} BY OutcomeTyped
<1> DEFINE request == [flight[i] EXCEPT !.answer = answer]
<1>6. request \in Requests /\ request.limit = flight[i].limit /\ request.answer = answer
  BY <1>4, <1>5 DEF Requests
<1>7. flight' = [flight EXCEPT ![i] = request] BY <1>2, <1>4
<1> HIDE DEF request
<1>8. flight' \in Seq(Requests) /\ Len(flight') = Len(flight) /\ flight'[i] = request
  BY <1>4, <1>6, <1>7, ExceptSeq
<1>9. mounted /\ flight # <<>> /\ flight' # <<>>
  <2>1. Len(flight) # 0 BY <1>4
  <2> QED BY <1>1, <1>8, <2>1, EmptySeq DEF TypeOK
<1>10. \A j \in DOMAIN flight' : flight'[j].limit \in Budgets
                                 /\ flight'[j].answer \in Layouts \union {Failed, None}
  BY <1>8, RequestTyped
<1>11. Kinds' BY <1>1, <1>3, <1>8, <1>9, <1>10 DEF Kinds, TypeOK
<1>12. RequestsInv'
  <2> SUFFICES ASSUME manner # "overlap" PROVE Asking'
    BY <1>3, <1>9 DEF RequestsInv
  <2>1. Asking BY <1>1, <1>9 DEF RequestsInv
  <2>2. i = 1 BY <1>4, <2>1 DEF Asking
  <2>3. ASSUME mode = "live", manner = "clean", answer \notin {None, Failed}
        PROVE  CutAt(answer, budget.value)
    <3>1. answer \in Outcomes(budget.value) BY <2>1, <2>2, <2>3, <1>2 DEF Asking
    <3>2. budget.value \in Budgets BY <1>1 DEF Kinds
    <3> QED BY <2>3, <3>1, <3>2, OutcomeCut
  <2> QED BY <1>3, <1>6, <1>8, <2>1, <2>2, <2>3 DEF Asking, CutAt, LimitNotice
<1>13. BudgetOfProject' BY <1>1, <1>3 DEF BudgetOfProject, ProjectKey, LoadNodeBudget
<1> QED BY <1>11, <1>12, <1>13 DEF TabInv

\* What EnableEverything enables, there is.
LEMMA Everything ==
  ASSUME NEW d \in Layouts
  PROVE  /\ {Label[e] : e \in d.nodes} \subseteq Labels
         /\ {edge.type : edge \in d.edges} \subseteq Types
<1>1. d.nodes \subseteq Entities /\ d.edges \subseteq Edges BY DEF Layouts
<1> QED BY <1>1 DEF Labels, Types

LEMMA DeliverStep ==
  ASSUME TabInv, NEW i \in DOMAIN flight, Deliver(i)
  PROVE  TabInv'
<1>1. Kinds /\ TypeOK /\ RequestsInv /\ BudgetOfProject BY DEF TabInv, Kinds
<1> DEFINE answer == flight[i].answer
<1>2. /\ UNCHANGED <<mode, saved, mounted, project, budget, unstored, manner, selected, highlighted, path>>
      /\ answer # None /\ flight' = Without(flight, i) /\ loading' = FALSE
      /\ refused' = (answer = Failed)
      /\ answer = Failed => failed' = TRUE /\ data' = data
                            /\ UNCHANGED <<labels, types, statuses, missed>>
      /\ answer # Failed => data' = answer /\ EnableEverything(data') /\ UNCHANGED failed
  BY DEF Deliver, Settle, selectionVars, filterVars
<1>3. /\ flight \in Seq(Requests) /\ Len(flight) \in Nat /\ DOMAIN flight = 1 .. Len(flight)
      /\ answer \in Layouts \union {Failed, None}
  BY <1>1, RequestTyped DEF Kinds
<1>4. /\ flight' \in Seq(Requests) /\ Len(flight') = Len(flight) - 1
      /\ Len(flight) = 1 => i = 1 /\ flight' = <<>>
  BY <1>2, <1>3, Remaining
<1>5. mounted /\ flight # <<>>
  <2>1. Len(flight) # 0 BY <1>3
  <2> QED BY <1>1, <2>1, EmptySeq DEF TypeOK
<1>6. \A j \in DOMAIN flight' : flight'[j].limit \in Budgets
                                /\ flight'[j].answer \in Layouts \union {Failed, None}
  BY <1>4, RequestTyped
<1> HIDE DEF answer
<1>7. /\ data' \in Layouts \union {None}
      /\ labels' \subseteq Labels /\ types' \subseteq Types /\ statuses' \subseteq StatusFilters
      /\ missed' \in BOOLEAN /\ failed' \in BOOLEAN
  <2>1. CASE answer = Failed BY <1>1, <1>2, <2>1 DEF TypeOK
  <2>2. CASE answer # Failed
    <3>1. data' \in Layouts /\ data'.nodes \subseteq Entities BY <1>2, <1>3, <2>2 DEF Layouts
    <3>2. /\ labels' = {Label[e] : e \in data'.nodes}
          /\ types' = {edge.type : edge \in data'.edges}
          /\ UNCHANGED <<statuses, missed, failed>>
      BY <1>2, <2>2 DEF EnableEverything
    <3>3. labels' \subseteq Labels /\ types' \subseteq Types BY <3>1, <3>2, Everything
    <3> QED BY <1>1, <3>1, <3>2, <3>3 DEF TypeOK
  <2> QED BY <2>1, <2>2
<1>8. MaxFlight \in Nat /\ Len(flight) <= MaxFlight BY <1>1, GraphTabConstants DEF TypeOK
<1>9. Kinds'
  <2>1. Len(flight') <= MaxFlight BY <1>3, <1>4, <1>8
  <2>2. {loading', failed', refused', missed', path'} \subseteq BOOLEAN
    BY <1>1, <1>2, <1>7 DEF TypeOK
  <2> QED BY <1>1, <1>2, <1>4, <1>5, <1>6, <1>7, <2>1, <2>2 DEF Kinds, TypeOK
<1>10. RequestsInv'
  <2> SUFFICES ASSUME manner # "overlap" PROVE flight' = <<>> /\ Answered'
    BY <1>2, <1>5 DEF RequestsInv
  <2>1. Asking BY <1>1, <1>5 DEF RequestsInv
  <2>2. i = 1 /\ flight' = <<>> /\ ~failed /\ highlighted = None BY <1>4, <2>1 DEF Asking
  <2>3. failed' <=> refused' BY <1>2, <2>2
  <2>4. ASSUME manner = "clean", mode = "live", ~failed' PROVE CutAt(data', budget.value)
    <3>1. answer # Failed /\ data' = answer BY <1>2, <2>4
    <3> QED BY <1>2, <2>1, <2>2, <2>4, <3>1 DEF Asking, answer
  <2>5. CutAt(data', budget.value) => (CutAt(data, budget.value))'
    BY <1>2 DEF CutAt, LimitNotice
  <2> QED BY <1>2, <2>2, <2>3, <2>4, <2>5 DEF Answered
<1>11. BudgetOfProject' BY <1>1, <1>2 DEF BudgetOfProject, ProjectKey, LoadNodeBudget
<1> QED BY <1>9, <1>10, <1>11 DEF TabInv

-----------------------------------------------------------------------------
(***************************************************************************)
(* The actions.                                                            *)
(***************************************************************************)

LEMMA KeyOf ==
  ASSUME NEW p \in Projects \union {None}, ProjectKey(p) # None
  PROVE  ProjectKey(p) \in Projects \union {"snapshot"}
BY DEF ProjectKey

LEMMA LoadedIsBudget ==
  ASSUME TypeOK, NEW key \in Projects \union {"snapshot"}
  PROVE  LoadNodeBudget(key) \in Budgets
BY DefaultIsBudget DEF TypeOK, LoadNodeBudget

LEMMA OneLimit ==
  ASSUME NEW limit \in Budgets
  PROVE  <<limit>> \in Seq(Budgets) /\ Len(<<limit>>) = 1 /\ <<limit>>[1] = limit
OBVIOUS

LEMMA MountStep ==
  ASSUME TabInv, NEW p \in Projects \union {None}, Mount(p)
  PROVE  TabInv'
<1>1. Kinds /\ TypeOK /\ RequestsInv BY DEF TabInv, Kinds
<1>2. /\ ~mounted /\ mounted' /\ mounted' \in BOOLEAN /\ project' = p
      /\ UNCHANGED <<mode, saved, unstored, data, labels, types, statuses, missed, selected,
                     highlighted, path>>
  BY DEF Mount, filterVars, selectionVars
<1>3. Fresh /\ flight = <<>> /\ ~loading /\ data = None /\ selected = None
  BY <1>1, <1>2 DEF RequestsInv, TypeOK
<1>4. ProjectKey(project)' = ProjectKey(p) BY <1>2 DEF ProjectKey
<1>5. CASE ProjectKey(p) = None
  <2>1. /\ budget' = [project |-> None, value |-> DefaultBudget]
        /\ UNCHANGED <<flight, loading, failed, refused, manner>>
    BY <1>5 DEF Mount, requestVars
  <2>2. budget' \in [project : Projects \union {"snapshot", None}, value : Budgets]
        /\ budget'.project \in Projects \union {"snapshot", None} /\ budget'.value \in Budgets
    BY <2>1, DefaultIsBudget
  <2>3. Kinds' BY <1>1, <1>2, <2>1, <2>2 DEF Kinds, TypeOK
  <2>4. RequestsInv' BY <1>2, <1>3, <2>1 DEF RequestsInv, Answered, Fresh
  <2>5. BudgetOfProject' BY <1>4, <1>5 DEF BudgetOfProject
  <2> QED BY <2>3, <2>4, <2>5 DEF TabInv
<1>6. CASE ProjectKey(p) # None
  <2>1. /\ budget' = [project |-> ProjectKey(p), value |-> LoadNodeBudget(ProjectKey(p))]
        /\ Fetch(<<budget'.value>>)
    BY <1>6 DEF Mount
  <2>2. ProjectKey(p) \in Projects \union {"snapshot"} BY <1>6, KeyOf
  <2>3. budget'.value \in Budgets
        /\ budget' \in [project : Projects \union {"snapshot", None}, value : Budgets]
    BY <1>1, <2>1, <2>2, LoadedIsBudget
  <2>4. BudgetOfProject' BY <1>2, <1>3, <1>4, <2>1 DEF BudgetOfProject, LoadNodeBudget, Fresh
  <2>5. /\ Start(<<budget'.value>>)
        /\ manner' \in {"clean", "retry", "overlap"}
    BY <2>1 DEF Fetch
  <2>6. unstored' \in Budgets \union {None} /\ path' \in BOOLEAN
        /\ saved' \in [Projects \union {"snapshot"} -> Budgets \union {None}]
    BY <1>1, <1>2 DEF TypeOK
  <2>7. selected' \in {selected, None} /\ highlighted' \in {highlighted, None}
        /\ highlighted' = None
    BY <1>2, <1>3 DEF Fresh
  <2>8. UNCHANGED <<mode, data, filterVars>> BY DEF Mount
  <2>9. PICK limit \in Budgets : limit = budget'.value BY <2>3
  <2>10. <<limit>> \in Seq(Budgets) /\ Len(<<limit>>) = 1 /\ <<limit>>[1] = limit BY OneLimit
  <2> QED BY <1>2, <1>3, <2>3, <2>4, <2>5, <2>6, <2>7, <2>8, <2>9, <2>10, Fetching
<1> QED BY <1>5, <1>6

LEMMA ChangeProjectStep ==
  ASSUME TabInv, NEW p \in Projects \union {None}, ChangeProject(p)
  PROVE  TabInv'
<1>1. Kinds /\ TypeOK /\ RequestsInv BY DEF TabInv, Kinds
<1>2. /\ mounted /\ mounted' = mounted /\ project' = p
      /\ UNCHANGED <<mode, saved, data, labels, types, statuses, missed>>
  BY DEF ChangeProject, filterVars
<1>3. ProjectKey(project)' = ProjectKey(p) BY <1>2 DEF ProjectKey
<1>4. CASE ProjectKey(p) = None
  <2>1. UNCHANGED <<budget, unstored, flight, loading, failed, refused, manner, selected, highlighted,
                    path>>
    BY <1>4 DEF ChangeProject, requestVars, selectionVars
  <2>2. Kinds' BY <1>1, <1>2, <2>1 DEF Kinds, TypeOK
  <2>3. RequestsInv'
    BY <1>1, <1>2, <2>1 DEF RequestsInv, Answered, Asking, Fresh, CutAt, LimitNotice, Ids, RenderId
  <2>4. BudgetOfProject' BY <1>3, <1>4 DEF BudgetOfProject
  <2> QED BY <2>2, <2>3, <2>4 DEF TabInv
<1>5. CASE ProjectKey(p) # None
  <2>1. PICK new \in Budgets : new = LoadNodeBudget(ProjectKey(p))
    BY <1>1, <1>5, KeyOf, LoadedIsBudget
  <2>2. budget' = [project |-> ProjectKey(p), value |-> new] BY <1>5, <2>1 DEF ChangeProject
  <2>3. budget'.value = new
        /\ budget' \in [project : Projects \union {"snapshot", None}, value : Budgets]
    BY <1>5, <2>2, KeyOf
  <2>4. BudgetOfProject' /\ unstored' \in Budgets \union {None}
    BY <1>2, <1>3, <1>5, <2>1, <2>2 DEF ChangeProject, BudgetOfProject, LoadNodeBudget
  <2>5. PICK old \in Budgets : old = budget.value BY <1>1 DEF Kinds
  <2>6. PICK limits : /\ limits = IF budget.project = ProjectKey(p) THEN <<old, new>> ELSE <<new>>
                      /\ Fetch(limits)
    BY <1>5, <2>3, <2>5 DEF ChangeProject
  <2>7. limits \in Seq(Budgets) /\ (Len(limits) = 1 => limits[1] = new) /\ Len(limits) >= 1
        /\ Len(limits) \in Nat
    <3>1. CASE limits = <<old, new>> BY <3>1
    <3>2. CASE limits = <<new>> BY <3>2
    <3> QED BY <2>6, <3>1, <3>2
  <2>8. /\ Start(limits) /\ manner' \in {"clean", "retry", "overlap"}
        /\ manner' # "overlap" => flight = <<>> /\ Len(limits) = 1
    BY <2>6, <2>7 DEF Fetch
  <2>9. /\ selected' = selected /\ highlighted' = None /\ path' = FALSE
    BY <1>5 DEF ChangeProject, Unhighlight
  <2>10. UNCHANGED <<mode, data, filterVars>> BY DEF ChangeProject
  <2>11. saved' \in [Projects \union {"snapshot"} -> Budgets \union {None}]
    BY <1>1, <1>2 DEF TypeOK
  <2> QED BY <1>2, <2>3, <2>4, <2>7, <2>8, <2>9, <2>10, <2>11, Fetching
<1> QED BY <1>4, <1>5

LEMMA CommitBudgetStep ==
  ASSUME TabInv, NEW draft \in Drafts, CommitBudget(draft)
  PROVE  TabInv'
<1>1. Kinds /\ TypeOK /\ RequestsInv BY DEF TabInv, Kinds
<1>2. PICK value \in Budgets : value = ClampNodeBudget(draft) BY ClampedIsBudget
<1>3. OnGraph BY DEF CommitBudget, Drawn
<1>4. mounted /\ ProjectKey(project) # None BY <1>1, <1>3, GraphShown
<1>5. ProjectKey(project) \in Projects \union {"snapshot"} BY <1>1, <1>4, KeyOf DEF TypeOK
<1>6. /\ UNCHANGED <<mode, mounted, project, data, labels, types, statuses, missed, selected>>
      /\ UNCHANGED <<mode, data, filterVars>>
      /\ \/ saved' = [saved EXCEPT ![ProjectKey(project)] = value] /\ unstored' = None
         \/ saved' = saved /\ unstored' = value
      /\ budget' = [project |-> ProjectKey(project), value |-> value]
      /\ highlighted' = None /\ path' = FALSE /\ Fetch(<<value>>)
  BY <1>2 DEF CommitBudget, UserStays, Unhighlight, filterVars
<1>7. /\ saved' \in [Projects \union {"snapshot"} -> Budgets \union {None}]
      /\ unstored' \in Budgets \union {None}
  BY <1>1, <1>6 DEF TypeOK
<1>8. budget' \in [project : Projects \union {"snapshot", None}, value : Budgets]
      /\ budget'.value = value
  BY <1>5, <1>6
<1>9. BudgetOfProject'
  <2>1. ProjectKey(project)' = ProjectKey(project) BY <1>6 DEF ProjectKey
  <2>2. unstored' = None => saved'[ProjectKey(project)] = value
    BY <1>1, <1>5, <1>6, BudgetsAreNumbers DEF TypeOK
  <2>3. (IF unstored = None THEN LoadNodeBudget(ProjectKey(project)) ELSE unstored)' = value
    BY <1>6, <2>1, <2>2, BudgetsAreNumbers DEF LoadNodeBudget
  <2> QED BY <1>6, <2>1, <2>3 DEF BudgetOfProject
<1>10. <<value>> \in Seq(Budgets) /\ Len(<<value>>) = 1 /\ <<value>>[1] = value BY OneLimit
<1>11. /\ Start(<<value>>) /\ manner' \in {"clean", "retry", "overlap"}
       /\ manner' # "overlap" => flight = <<>>
  BY <1>6 DEF Fetch
<1>12. project' \in Projects \union {None} /\ mounted' BY <1>1, <1>4, <1>6 DEF TypeOK
<1> QED BY <1>6, <1>7, <1>8, <1>9, <1>10, <1>11, <1>12, Fetching

LEMMA RefreshStep ==
  ASSUME TabInv, Refresh \/ Retry
  PROVE  TabInv'
<1>1. Kinds /\ TypeOK /\ RequestsInv /\ BudgetOfProject BY DEF TabInv, Kinds
<1>2. mounted BY DEF Refresh, Retry, Drawn, OnGraph
<1>3. /\ UNCHANGED <<mode, mounted, project, data, saved, budget, unstored>>
      /\ UNCHANGED <<mode, data, filterVars>>
  BY DEF Refresh, Retry, UserStays
<1>4. BudgetOfProject' BY <1>1, <1>3 DEF BudgetOfProject, ProjectKey, LoadNodeBudget
<1>5. PICK limit \in Budgets :
        /\ Start(<<limit>>)
        /\ manner' \in {"clean", "retry", "overlap"}
        /\ manner' # "overlap" => flight = <<>> /\ highlighted' = None
        /\ manner' = "clean" => limit = budget.value
        /\ highlighted' \in {highlighted, None} /\ selected' \in {selected, None} /\ path' \in BOOLEAN
  <2>1. CASE Refresh
    <3>1. /\ Fetch(<<budget.value>>) /\ highlighted' = None /\ selected' = None /\ path' = FALSE
      BY <2>1 DEF Refresh, Unhighlight
    <3>2. budget.value \in Budgets BY <1>1 DEF Kinds
    <3> QED BY <3>1, <3>2 DEF Fetch
  <2>2. CASE Retry
    <3>1. /\ Start(<<DefaultBudget>>) /\ failed
          /\ manner' = IF flight # <<>> THEN "overlap" ELSE IF manner = "clean" THEN "retry" ELSE manner
          /\ UNCHANGED <<selected, highlighted, path>>
      BY <2>2 DEF Retry, Screen, selectionVars
    <3>2. manner' # "overlap" => flight = <<>> /\ highlighted = None
      BY <1>1, <1>2, <3>1 DEF RequestsInv, Answered
    <3>3. manner' \in {"retry", "overlap"} BY <1>1, <3>1 DEF TypeOK
    <3> QED BY <1>1, <3>1, <3>2, <3>3, DefaultIsBudget DEF TypeOK
  <2> QED BY <2>1, <2>2
<1>6. <<limit>> \in Seq(Budgets) /\ Len(<<limit>>) = 1 /\ <<limit>>[1] = limit BY OneLimit
<1>7. /\ project' \in Projects \union {None} /\ mounted'
      /\ budget' \in [project : Projects \union {"snapshot", None}, value : Budgets]
      /\ budget'.value = budget.value
      /\ saved' \in [Projects \union {"snapshot"} -> Budgets \union {None}]
      /\ unstored' \in Budgets \union {None}
  BY <1>1, <1>2, <1>3 DEF TypeOK, Kinds
<1> QED BY <1>3, <1>4, <1>5, <1>6, <1>7, Fetching

LEMMA SelectionStep ==
  ASSUME TabInv,
         \/ \E e \in Entities : HandleNodeClick(e)
         \/ HandleSkeletonClick \/ HandleBackgroundClick
         \/ HandleSelectPath \/ ClosePanel \/ ClearSelection
  PROVE  TabInv'
<1>1. TypeOK BY DEF TabInv, Kinds
<1>2. OnGraph /\ NoFetch /\ UserStays /\ UNCHANGED filterVars
  BY DEF HandleNodeClick, HandleSkeletonClick, HandleBackgroundClick, HandleSelectPath, ClosePanel,
         ClearSelection, Drawn
<1>3. data.nodes \subseteq Entities BY <1>1, <1>2, GraphShown
<1>4. FilteredNodes \subseteq data.nodes BY DEF FilteredNodes
<1>5. \A e \in data.nodes : RenderId(data.nodes, e) \in Ids(data.nodes)
                            /\ RenderId(data.nodes, e) \in Nat
  BY <1>3, IdsAreNumbers
<1>6. ASSUME NEW e \in Entities, HandleNodeClick(e) PROVE TabInv'
  <2>1. /\ e \in FilteredNodes /\ path' \in BOOLEAN
        /\ selected' = [id |-> RenderId(data.nodes, e), entity |-> e]
        /\ highlighted' = {RenderId(data.nodes, x) : x \in {e} \union Adjacent(FilteredEdges, e)}
    BY <1>6 DEF HandleNodeClick
  <2>2. Adjacent(FilteredEdges, e) \subseteq FilteredNodes
    <3>1. ASSUME NEW x \in Adjacent(FilteredEdges, e) PROVE x \in FilteredNodes
      <4>1. PICK edge \in FilteredEdges : {edge.from, edge.to} = {e, x} BY DEF Adjacent
      <4>2. edge.from \in FilteredNodes /\ edge.to \in FilteredNodes
        BY DEF FilteredEdges
      <4> QED BY <4>1, <4>2
    <3> QED BY <3>1
  <2>3. highlighted' \subseteq Ids(data.nodes) BY <1>4, <1>5, <2>1, <2>2
  <2>4. selected'.id \in Nat \union {Skeleton} /\ selected'.entity \in Entities \union {Skeleton}
    BY <1>4, <1>5, <2>1
  <2> QED BY <1>2, <2>1, <2>3, <2>4, Selecting
<1>7. CASE HandleSkeletonClick
  <2>1. selected' = [id |-> Skeleton, entity |-> Skeleton] /\ highlighted' = None /\ path' \in BOOLEAN
    BY <1>7 DEF HandleSkeletonClick
  <2> QED BY <1>2, <2>1, Selecting
<1>8. CASE HandleBackgroundClick \/ ClosePanel \/ ClearSelection
  <2>1. selected' = None /\ highlighted' = None /\ path' \in BOOLEAN
    BY <1>8 DEF HandleBackgroundClick, ClosePanel, ClearSelection, Unhighlight
  <2> QED BY <1>2, <2>1, Selecting
<1>9. CASE HandleSelectPath
  <2>1. selected' = selected BY <1>9 DEF HandleSelectPath
  <2>2. ASSUME NEW nodes, nodes \subseteq FilteredNodes, Highlight(nodes)
        PROVE  path' \in BOOLEAN /\ highlighted' \subseteq Ids(data.nodes)
    BY <1>4, <1>5, <2>2 DEF Highlight
  <2>3. Unhighlight => path' \in BOOLEAN /\ highlighted' = None BY DEF Unhighlight
  <2>4. path' \in BOOLEAN /\ (highlighted' # None => highlighted' \subseteq Ids(data.nodes))
    <3>1. CASE \E d \in Folders : Highlight({e \in FilteredNodes : InFolder(e, d)})
      <4>1. PICK d \in Folders : Highlight({e \in FilteredNodes : InFolder(e, d)}) BY <3>1
      <4>2. {e \in FilteredNodes : InFolder(e, d)} \subseteq FilteredNodes OBVIOUS
      <4> QED BY <2>2, <4>1, <4>2
    <3>2. CASE \E e \in FilteredNodes : IF File[e] = <<>> THEN Unhighlight ELSE Highlight({e})
      <4>1. PICK e \in FilteredNodes : Unhighlight \/ Highlight({e}) BY <3>2
      <4>2. {e} \subseteq FilteredNodes OBVIOUS
      <4> QED BY <2>2, <2>3, <4>1, <4>2
    <3> QED BY <1>9, <2>3, <3>1, <3>2 DEF HandleSelectPath
  <2> QED BY <1>1, <1>2, <2>1, <2>4, Selecting DEF TypeOK
<1> QED BY <1>6, <1>7, <1>8, <1>9

LEMMA FilterStep ==
  ASSUME TabInv, ToggleFilter \/ EnableAll \/ DisableAll
  PROVE  TabInv'
<1>1. TypeOK BY DEF TabInv, Kinds
<1>2. OnGraph /\ NoFetch /\ UserStays /\ UNCHANGED selectionVars
  BY DEF ToggleFilter, EnableAll, DisableAll
<1>3. data \in Layouts BY <1>1, <1>2, GraphShown
<1>4. /\ labels \subseteq Labels /\ types \subseteq Types /\ statuses \subseteq StatusFilters
      /\ missed \in BOOLEAN
  BY <1>1 DEF TypeOK
<1>5. LabelRows \subseteq Labels /\ TypeRows \subseteq Types
  BY <1>3, Everything DEF LabelRows, TypeRows
<1>6. /\ labels' \subseteq Labels /\ types' \subseteq Types /\ statuses' \subseteq StatusFilters
      /\ missed' \in BOOLEAN
  <2>1. CASE ToggleFilter
    <3>1. \/ \E l \in LabelRows : labels' = Flip(labels, l) /\ UNCHANGED <<types, statuses, missed>>
          \/ \E t \in TypeRows : types' = Flip(types, t) /\ UNCHANGED <<labels, statuses, missed>>
          \/ /\ \E s \in StatusFilters : statuses' = Flip(statuses, s)
             /\ UNCHANGED <<labels, types, missed>>
          \/ missed' = ~missed /\ UNCHANGED <<labels, types, statuses>>
      BY <2>1 DEF ToggleFilter
    <3> QED BY <1>4, <1>5, <3>1 DEF Flip
  <2>2. CASE EnableAll BY <1>3, <1>4, <2>2, Everything DEF EnableAll, EnableEverything
  <2>3. CASE DisableAll BY <1>4, <2>3 DEF DisableAll
  <2> QED BY <2>1, <2>2, <2>3
<1> QED BY <1>2, <1>6, Filtering

LEMMA OtherStep ==
  ASSUME TabInv, Unmount \/ UNCHANGED vars
  PROVE  TabInv'
<1>1. Kinds /\ TypeOK /\ RequestsInv /\ BudgetOfProject BY DEF TabInv, Kinds
<1>2. CASE Unmount
  <2>1. /\ mounted' = FALSE /\ project' = None /\ flight' = <<>> /\ loading' = FALSE
        /\ failed' = FALSE /\ manner' = "clean" /\ data' = None /\ refused' = FALSE
        /\ labels' = {} /\ types' = {} /\ statuses' = {} /\ missed' = FALSE
        /\ selected' = None /\ highlighted' = None /\ path' = FALSE
        /\ budget' = [project |-> None, value |-> DefaultBudget]
        /\ unstored' = None /\ UNCHANGED <<mode, saved>>
    BY <1>2 DEF Unmount, Unhighlight
  <2>2. /\ flight' \in Seq(Requests) /\ DOMAIN flight' = {} /\ Len(flight') = 0
        /\ MaxFlight \in Nat
    BY <2>1, EmptySeq, GraphTabConstants
  <2>3. budget' \in [project : Projects \union {"snapshot", None}, value : Budgets]
        /\ budget'.project \in Projects \union {"snapshot", None} /\ budget'.value \in Budgets
    BY <2>1, DefaultIsBudget
  <2>4. Len(flight') <= MaxFlight BY <2>2
  <2>5. Kinds' BY <1>1, <2>1, <2>2, <2>3, <2>4 DEF Kinds, TypeOK
  <2> QED BY <2>1, <2>5 DEF TabInv, RequestsInv, Fresh, BudgetOfProject
<1>3. CASE UNCHANGED vars
  <2>1. UNCHANGED <<mode, mounted, project, data, saved, budget, unstored, flight, loading, failed,
                    refused, manner, labels, types, statuses, missed, selected, highlighted, path>>
    BY <1>3 DEF vars, requestVars, filterVars, selectionVars
  <2>2. Kinds' BY <1>1, <2>1 DEF Kinds, TypeOK
  <2>3. RequestsInv'
    BY <1>1, <2>1 DEF RequestsInv, Answered, Asking, Fresh, CutAt, LimitNotice, Ids, RenderId
  <2>4. BudgetOfProject' BY <1>1, <2>1 DEF BudgetOfProject, ProjectKey, LoadNodeBudget
  <2> QED BY <2>2, <2>3, <2>4 DEF TabInv
<1> QED BY <1>2, <1>3

-----------------------------------------------------------------------------
(***************************************************************************)
(* The theorems.                                                           *)
(***************************************************************************)

\* The invariant the theorems rest on.
THEOREM TabInvariant == Spec => []TabInv
<1>1. TabInv /\ [Next]_vars => TabInv'
  BY MountStep, ChangeProjectStep, CommitBudgetStep, RefreshStep, AnswerStep, DeliverStep,
     SelectionStep, FilterStep, OtherStep
  DEF Next
<1> QED BY InitTab, <1>1, PTL DEF Spec

\* For any entities, projects and bounds, everything is of its kind: whatever number is
\* typed, the budget is a multiple of the step within the maximum; and an unmounted tab
\* keeps nothing (GraphTab.tsx:44-57, 70-125).
THEOREM TypeCorrect == Spec => []TypeOK
<1>1. TabInv => TypeOK BY DEF TabInv, Kinds
<1> QED BY TabInvariant, <1>1, PTL

\* However the server's graph changed before and between the three statements an answer is
\* made of, the graph that is shown when the last request ended is one the server held, cut
\* at the budget the tab shows; the notice is right where what was counted is what was cut;
\* and highlights are nodes of the graph, unless requests overlapped (GraphTab.tsx:192-208,
\* useGraphData.ts:107-122, api.py:127-148).
THEOREM AlwaysSettlesOnAnswer == Spec => []SettlesOnAnswer
<1>1. ASSUME TabInv PROVE SettlesOnAnswer
  BY <1>1 DEF TabInv, RequestsInv, Answered, CutAt, SettlesOnAnswer
<1> QED BY TabInvariant, <1>1, PTL

\* Through every change of project and every remount, the tab's budget is the one
\* persisted for the project it shows, or the one localStorage has refused to persist
\* since the tab came to that project (GraphTab.tsx:44-57, 95-109, 191-198).
THEOREM AlwaysBudgetOfProject == Spec => []BudgetOfProject
<1>1. TabInv => BudgetOfProject BY DEF TabInv
<1> QED BY TabInvariant, <1>1, PTL

\* Only an answer changes the graph of a mounted tab.
LEMMA OnlyAnswersChangeData ==
  ASSUME [Next]_vars, mounted', ~(\E i \in DOMAIN flight : Deliver(i))
  PROVE  data' = data
BY DEF Next, vars, Mount, ChangeProject, Unmount, Answer, CommitBudget, Refresh, Retry,
       HandleNodeClick, HandleSkeletonClick, HandleBackgroundClick, HandleSelectPath, ClosePanel,
       ClearSelection, ToggleFilter, EnableAll, DisableAll, UserStays

\* A mounted tab's graph gives way only to another graph, and a refresh that fails leaves
\* it, however many requests are under way (useGraphData.ts:107-122).
THEOREM AlwaysKeepsLastGraph == Spec => KeepsLastGraph
<1>1. ASSUME [Next]_vars
      PROVE  mounted /\ mounted' =>
               /\ data # None => data' # None
               /\ failed' /\ ~failed => data' = data
  <2>1. ASSUME NEW i \in DOMAIN flight, Deliver(i)
        PROVE  (data # None => data' # None) /\ (failed' /\ ~failed => data' = data)
    BY <2>1 DEF Deliver, Settle
  <2> QED BY <1>1, <2>1, OnlyAnswersChangeData
<1> QED BY <1>1, PTL DEF Spec, KeepsLastGraph
================================================================================
