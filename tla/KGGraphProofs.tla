---------------------------- MODULE KGGraphProofs ----------------------------
(***************************************************************************)
(* Proofs about KGGraph, for every value of its constants.                 *)
(***************************************************************************)
EXTENDS KGGraph, FiniteSetTheorems, TLAPS

-----------------------------------------------------------------------------
(***************************************************************************)
(* Ids and edge ids.                                                       *)
(***************************************************************************)

\* An edge id is the triple of its ends and its semantic type.
LEMMA EdgeIdParts ==
    ASSUME NEW e \in EdgeIds
    PROVE  /\ e[1] \in Ids /\ e[2] \in Sems /\ e[3] \in Ids
           /\ e = <<e[1], e[2], e[3]>>
BY DEF EdgeIds

\* Redirecting the ends of an edge gives an edge of the same semantic type.
LEMMA RebuiltType ==
    ASSUME NEW e \in EdgeIds, NEW w \in Ids, NEW l \in Ids
    PROVE  /\ Rebuilt(e, w, l) \in EdgeIds
           /\ Rebuilt(e, w, l)[1] = Redirect(e[1], w, l)
           /\ Rebuilt(e, w, l)[2] = e[2]
           /\ Rebuilt(e, w, l)[3] = Redirect(e[3], w, l)
BY EdgeIdParts DEF EdgeIds, Rebuilt, Redirect

-----------------------------------------------------------------------------
(***************************************************************************)
(* What a save creates.                                                    *)
(***************************************************************************)

\* A mention of a batch is one extraction may report, and its verdict is one
\* that dedup may give for it.
LEMMA BatchType ==
    ASSUME NEW batch \in Batches, NEW m \in DOMAIN batch
    PROVE  /\ m \in Mentions
           /\ m.type \in Types /\ m.slug \in Slugs /\ m.value \in Values \cup {None}
           /\ batch[m] \in Verdicts(m.type)
BY ConstantsAssumption DEF Batches

\* A created mention gets an id that no row has yet, of its own type.
LEMMA AllocatedIdFree ==
    ASSUME NEW batch \in Batches, NEW m \in Created(batch), Allocatable(batch)
    PROVE  /\ SettledId(batch, m) \in Ids
           /\ status[SettledId(batch, m)] = "absent"
           /\ TypeOf(SettledId(batch, m)) = m.type
<1>1. m \in DOMAIN batch /\ batch[m].route # "MERGED"
  BY DEF Created
<1>2. m.type \in Types /\ m.slug \in Slugs
  BY <1>1, BatchType
<1> DEFINE k == CHOOSE n \in 1..MaxSuffix : FirstFree(m.type, m.slug, n)
<1>3. k \in 1..MaxSuffix /\ FirstFree(m.type, m.slug, k)
  BY DEF Allocatable
<1>4. SettledId(batch, m) = <<m.type, m.slug, k>>
  BY <1>1 DEF SettledId, AllocateNodeId
<1> HIDE DEF k
<1>5. QED
  BY <1>2, <1>3, <1>4 DEF FirstFree, Ids, TypeOf

\* A mention that dedup matched names an active node of its own type.
LEMMA MatchActive ==
    ASSUME NEW batch \in Batches, NEW m \in DOMAIN batch, batch[m].route # "NEW"
    PROVE  /\ batch[m].match \in Active
           /\ TypeOf(batch[m].match) = m.type
BY BatchType DEF Verdicts, MatchRoutes

\* Every mention of a committed save settles on a node that is active afterwards.
LEMMA SettledActive ==
    ASSUME NEW batch \in Batches, NEW m \in DOMAIN batch, Allocatable(batch)
    PROVE  SettledId(batch, m) \in Active \cup NewIds(batch)
<1>1. CASE batch[m].route = "MERGED"
  BY <1>1, MatchActive DEF SettledId
<1>2. CASE batch[m].route # "MERGED"
  BY <1>2 DEF NewIds, Created
<1>3. QED
  BY <1>1, <1>2

\* The ids a save creates were absent.
LEMMA NewIdsAbsent ==
    ASSUME NEW batch \in Batches, Allocatable(batch)
    PROVE  NewIds(batch) \subseteq {n \in Ids : status[n] = "absent"}
BY AllocatedIdFree DEF NewIds

\* A flagged edge leads from a created node to an active node of its type.
LEMMA FlaggedType ==
    ASSUME NEW batch \in Batches, Allocatable(batch), NEW e \in FlaggedEdges(batch)
    PROVE  /\ e \in EdgeIds /\ e[2] = "same_as"
           /\ e[1] \in NewIds(batch) /\ e[3] \in Active
           /\ TypeOf(e[1]) = TypeOf(e[3])
<1>1. PICK m \in Created(batch) :
        /\ batch[m].route = "FLAGGED"
        /\ e = <<SettledId(batch, m), "same_as", batch[m].match>>
  BY DEF FlaggedEdges
<1>2. m \in DOMAIN batch
  BY DEF Created
<1>3. /\ SettledId(batch, m) \in Ids /\ TypeOf(SettledId(batch, m)) = m.type
      /\ SettledId(batch, m) \in NewIds(batch)
  BY AllocatedIdFree DEF NewIds
<1>4. batch[m].match \in Active /\ TypeOf(batch[m].match) = m.type
  BY <1>1, <1>2, MatchActive
<1>5. QED
  BY <1>1, <1>3, <1>4, ConstantsAssumption DEF EdgeIds, Active

\* An extracted edge joins nodes that are active after the save.
LEMMA LinksType ==
    ASSUME NEW batch \in Batches, Allocatable(batch), NEW e \in Links(batch)
    PROVE  /\ e \in EdgeIds
           /\ e[1] \in Active \cup NewIds(batch)
           /\ e[3] \in Active \cup NewIds(batch)
<1>1. PICK ms \in Unambiguous(batch) \X Unambiguous(batch), sem \in ExtractedSems :
        e = <<SettledId(batch, ms[1]), sem, SettledId(batch, ms[2])>>
  BY DEF Links
<1>2. ms[1] \in DOMAIN batch /\ ms[2] \in DOMAIN batch
  BY DEF Unambiguous
<1>3. /\ SettledId(batch, ms[1]) \in Active \cup NewIds(batch)
      /\ SettledId(batch, ms[2]) \in Active \cup NewIds(batch)
  BY <1>2, SettledActive
<1>4. Active \cup NewIds(batch) \subseteq Ids
  BY NewIdsAbsent DEF Active
<1>5. QED
  BY <1>1, <1>3, <1>4, ConstantsAssumption DEF EdgeIds
-----------------------------------------------------------------------------
(***************************************************************************)
(* What a merge does to the rows of the graph.                             *)
(***************************************************************************)

\* The edges table after a merge holds statuses and sources of its kind.
LEMMA MergedEdgeType ==
    ASSUME TypeOK, NEW w \in Ids, NEW l \in Ids, NEW e \in EdgeIds
    PROVE  /\ MergedEdge(e, w, l) \in EdgeStatuses
           /\ MergedEdgeLineage(e, w, l) \subseteq Sources
<1>1. LoserEdge(e, w, l) \in EdgeIds
  BY RebuiltType DEF LoserEdge
<1>2. QED
  BY <1>1 DEF MergedEdge, MergedEdgeLineage, TypeOK, EdgeStatuses

\* The rows of the nodes table after a merge are of their kind.
LEMMA MergeInplaceType ==
    ASSUME TypeOK, NEW w \in Ids, NEW l \in Ids, MergeInplace(w, l)
    PROVE  /\ status' \in [Ids -> {"absent", "active", "tombstoned"}]
           /\ mergedInto' \in [Ids -> Ids \cup {None}]
           /\ lineage' \in [Ids -> SUBSET Sources]
           /\ attr' \in [Ids -> Values \cup {None}]
           /\ conflicts' \in [Ids -> SUBSET (Values \X Values)]
           /\ edge' \in [EdgeIds -> EdgeStatuses]
           /\ edgeLineage' \in [EdgeIds -> SUBSET Sources]
<1>1. /\ status' \in [Ids -> {"absent", "active", "tombstoned"}]
      /\ mergedInto' \in [Ids -> Ids \cup {None}]
  BY DEF MergeInplace, TypeOK
<1>2. lineage' \in [Ids -> SUBSET Sources]
  BY DEF MergeInplace, TypeOK, MergedLineage
<1>3. attr' \in [Ids -> Values \cup {None}]
  BY DEF MergeInplace, TypeOK, MergedAttr
<1>4. MergedConflicts(w, l) \in SUBSET (Values \X Values)
  BY DEF TypeOK, MergedConflicts
<1>5. conflicts' \in [Ids -> SUBSET (Values \X Values)]
  BY <1>4 DEF MergeInplace, TypeOK
<1>6. /\ edge' \in [EdgeIds -> EdgeStatuses]
      /\ edgeLineage' \in [EdgeIds -> SUBSET Sources]
  BY MergedEdgeType DEF MergeInplace
<1>7. QED
  BY <1>1, <1>2, <1>3, <1>5, <1>6

\* What a session holds after a decision is an audit record.
LEMMA DecideType ==
    ASSUME TypeOK, NEW p \in Procs, NEW d \in Decision, NEW before \in SUBSET EdgeIds,
           Decide(p, d, before)
    PROVE  /\ audit' \in [Procs -> Audit \cup {None}]
           /\ committed' \subseteq Decision
           /\ log' = log /\ faults' = faults
<1>1. [decision |-> d, edgesBefore |-> before] \in Audit
  BY DEF Audit
<1>2. QED
  BY <1>1 DEF Decide, TypeOK

\* The edges that a merge captures are edges.
LEMMA CapturedType ==
    ASSUME NEW w \in Ids, NEW l \in Ids
    PROVE  Captured(w, l) \in SUBSET EdgeIds
BY DEF Captured, Edges

\* The decisions that sessions make are decisions.
LEMMA DecisionType ==
    ASSUME NEW p \in Procs, NEW w \in Ids \cup {None}, NEW l \in Ids \cup {None},
           NEW r \in EdgeIds \cup {None},
           NEW a \in {"merge", "review_confirm", "review_reject"}
    PROVE  [action |-> a, via |-> p, winner |-> w, loser |-> l, review |-> r] \in Decision
BY DEF Decision

-----------------------------------------------------------------------------
(***************************************************************************)
(* Type correctness.                                                       *)
(***************************************************************************)

\* A save keeps every table of its kind.
LEMMA SaveType ==
    ASSUME TypeOK, NEW batch \in Batches, NEW source \in Sources, Save(batch, source)
    PROVE  TypeOK'
<1>1. Allocatable(batch)
  BY DEF Save
<1>2. status' \in [Ids -> {"absent", "active", "tombstoned"}]
  BY DEF Save, TypeOK
<1>3. lineage' \in [Ids -> SUBSET Sources]
  BY DEF Save, TypeOK
<1>4. attr' \in [Ids -> Values \cup {None}]
  BY DEF Save
<1>7. PICK links \in LinkSets(batch) :
        /\ edge' = [e \in EdgeIds |-> IF e \in links THEN "active"
                                      ELSE IF e \in FlaggedEdges(batch) THEN "pending"
                                      ELSE edge[e]]
        /\ edgeLineage' = [e \in EdgeIds |-> IF e \in links THEN {source}
                                             ELSE IF e \in FlaggedEdges(batch) THEN {}
                                             ELSE edgeLineage[e]]
  BY DEF Save
<1>8. edge' \in [EdgeIds -> EdgeStatuses] /\ edgeLineage' \in [EdgeIds -> SUBSET Sources]
  BY <1>7 DEF TypeOK, EdgeStatuses
<1>9. UNCHANGED <<mergedInto, conflicts, request, audit, log, committed, faults>>
  BY DEF Save
<1>10. QED
  BY <1>2, <1>3, <1>4, <1>8, <1>9 DEF TypeOK

\* What a confirming session read names an edge and its two ends.
LEMMA ReviewEnds ==
    ASSUME TypeOK, NEW p \in Procs, request[p] # None
    PROVE  /\ request[p].review \in EdgeIds /\ request[p].winner \in Ids
           /\ OtherEnd(request[p].review, request[p].winner) \in Ids
<1>1. request[p] \in Request
  BY DEF TypeOK
<1>2. request[p].review \in EdgeIds /\ request[p].winner \in Ids
  BY <1>1 DEF Request
<1>3. QED
  BY <1>2, EdgeIdParts DEF OtherEnd

\* A step of a session keeps every table of its kind.
LEMMA SessionType ==
    ASSUME TypeOK, NEW p \in Procs, SessionStep(p)
    PROVE  TypeOK'
<1>1. ASSUME NEW w \in Ids, NEW l \in Ids, Merge(p, w, l)
      PROVE  TypeOK'
  <2>1. /\ audit' \in [Procs -> Audit \cup {None}] /\ committed' \subseteq Decision
        /\ log' = log /\ faults' = faults
    BY <1>1, DecideType, CapturedType, DecisionType DEF Merge
  <2>2. MergeInplace(w, l) /\ request' = request
    BY <1>1 DEF Merge
  <2>3. QED
    BY <2>1, <2>2, MergeInplaceType DEF TypeOK
<1>2. ASSUME NEW e \in EdgeIds, NEW w \in {e[1], e[3]}, ReadReview(p, e, w)
      PROVE  TypeOK'
  <2>1. w \in Ids
    BY EdgeIdParts
  <2>2. [review |-> e, winner |-> w] \in Request
    BY <2>1 DEF Request
  <2>3. QED
    BY <1>2, <2>2 DEF ReadReview, TypeOK, graphVars
<1>3. ASSUME ConfirmReview(p)
      PROVE  TypeOK'
  <2> DEFINE e == request[p].review
             w == request[p].winner
             l == OtherEnd(e, w)
             d == [action |-> "review_confirm", via |-> p, winner |-> w,
                   loser |-> l, review |-> e]
             before == Captured(w, l) \cup {e}
  <2>1. /\ MergeInplace(w, l) /\ Decide(p, d, before)
        /\ request' = [request EXCEPT ![p] = None]
    BY <1>3 DEF ConfirmReview
  <2>2. e \in EdgeIds /\ w \in Ids /\ l \in Ids
    BY <1>3, ReviewEnds DEF ConfirmReview
  <2>3. d \in Decision /\ before \in SUBSET EdgeIds
    BY <2>2, DecisionType, CapturedType
  <2> HIDE DEF e, w, l, d, before
  <2>4. /\ audit' \in [Procs -> Audit \cup {None}] /\ committed' \subseteq Decision
        /\ log' = log /\ faults' = faults
    BY <2>1, <2>3, DecideType
  <2>5. request' \in [Procs -> Request \cup {None}]
    BY <2>1 DEF TypeOK
  <2>6. QED
    BY <2>1, <2>2, <2>4, <2>5, MergeInplaceType DEF TypeOK
<1>4. ASSUME RefuseConfirm(p)
      PROVE  TypeOK'
  BY <1>4 DEF RefuseConfirm, TypeOK, graphVars
<1>5. ASSUME NEW e \in EdgeIds, RejectReview(p, e)
      PROVE  TypeOK'
  <2>1. /\ audit' \in [Procs -> Audit \cup {None}] /\ committed' \subseteq Decision
        /\ log' = log /\ faults' = faults
    BY <1>5, DecideType, DecisionType DEF RejectReview
  <2>2. edge' \in [EdgeIds -> EdgeStatuses]
    BY <1>5 DEF RejectReview, TypeOK, EdgeStatuses
  <2>3. QED
    BY <1>5, <2>1, <2>2 DEF RejectReview, TypeOK
<1>6. ASSUME AppendAudit(p)
      PROVE  TypeOK'
  <2>1. audit[p].decision \in Decision
    BY <1>6 DEF AppendAudit, TypeOK, Audit
  <2>2. QED
    BY <1>6, <2>1 DEF AppendAudit, TypeOK, graphVars
<1>7. ASSUME AppendFails(p)
      PROVE  TypeOK'
  BY <1>7, ConstantsAssumption DEF AppendFails, TypeOK, graphVars
<1>8. ASSUME AnswerMcp(p)
      PROVE  TypeOK'
  BY <1>8 DEF AnswerMcp, TypeOK, graphVars
<1>9. ASSUME Crash(p)
      PROVE  TypeOK'
  BY <1>9, ConstantsAssumption DEF Crash, TypeOK, graphVars
<1>10. QED
  BY <1>1, <1>2, <1>3, <1>4, <1>5, <1>6, <1>7, <1>8, <1>9 DEF SessionStep

-----------------------------------------------------------------------------
(***************************************************************************)
(* The kinds of step, by what they do to the graph.                        *)
(***************************************************************************)

\* A session p merges l into w, by itself (r is None) or confirming review r.
MergeStep(p, w, l, r) ==
    /\ MergeAllowed(w, l)
    /\ MergeInplace(w, l)
    /\ r # None => Reviewable(r) /\ Touches(r, l)
    /\ \E a \in {"merge", "review_confirm"}, before \in SUBSET EdgeIds :
          Decide(p, [action |-> a, via |-> p, winner |-> w, loser |-> l, review |-> r],
                 before)

\* A step that leaves the tables and the decisions as they are.
QuietStep == UNCHANGED <<graphVars, committed>>

\* Every step is a save, a merge, a rejected review or leaves the graph alone.
LEMMA StepKinds ==
    ASSUME TypeOK, [Next]_vars
    PROVE  \/ \E batch \in Batches, source \in Sources : Save(batch, source)
           \/ \E p \in Procs, w, l \in Ids, r \in EdgeIds \cup {None} : MergeStep(p, w, l, r)
           \/ \E p \in Procs, e \in EdgeIds : RejectReview(p, e)
           \/ QuietStep
<1>1. CASE SaveStep
  BY <1>1 DEF SaveStep
<1>2. ASSUME NEW p \in Procs, NEW w \in Ids, NEW l \in Ids, Merge(p, w, l)
      PROVE  MergeStep(p, w, l, None)
  BY <1>2, CapturedType DEF Merge, MergeStep
<1>3. ASSUME NEW p \in Procs, ConfirmReview(p)
      PROVE  \E w, l \in Ids, r \in EdgeIds : MergeStep(p, w, l, r)
  <2> DEFINE r == request[p].review
             w == request[p].winner
             l == OtherEnd(r, w)
  <2>1. r \in EdgeIds /\ w \in Ids /\ l \in Ids
    BY <1>3, ReviewEnds DEF ConfirmReview
  <2>2. Touches(r, l)
    BY DEF Touches, OtherEnd
  <2>3. Captured(w, l) \cup {r} \in SUBSET EdgeIds
    BY <2>1, CapturedType
  <2>4. MergeStep(p, w, l, r)
    BY <1>3, <2>2, <2>3 DEF ConfirmReview, MergeStep
  <2>5. QED
    BY <2>1, <2>4
<1>4. ASSUME NEW p \in Procs, NEW e \in EdgeIds, NEW w \in {e[1], e[3]}, ReadReview(p, e, w)
      PROVE  QuietStep
  BY <1>4 DEF ReadReview, QuietStep
<1>5. ASSUME NEW p \in Procs,
             RefuseConfirm(p) \/ AppendAudit(p) \/ AppendFails(p) \/ AnswerMcp(p) \/ Crash(p)
      PROVE  QuietStep
  BY <1>5 DEF RefuseConfirm, AppendAudit, AppendFails, AnswerMcp, Crash, QuietStep
<1>6. CASE \E p \in Procs : SessionStep(p)
  BY <1>2, <1>3, <1>4, <1>5, <1>6 DEF SessionStep
<1>7. CASE UNCHANGED vars
  BY <1>7 DEF vars, graphVars, QuietStep
<1>8. QED
  BY <1>1, <1>6, <1>7 DEF Next

\* A save only adds nodes.
LEMMA SaveNodes ==
    ASSUME TypeOK, NEW batch \in Batches, NEW source \in Sources, Save(batch, source)
    PROVE  /\ Active' = Active \cup NewIds(batch)
           /\ Tombstoned' = Tombstoned
           /\ mergedInto' = mergedInto
<1>1. NewIds(batch) \subseteq {n \in Ids : status[n] = "absent"}
  BY NewIdsAbsent DEF Save
<1>2. \A n \in Ids : status'[n] = IF n \in NewIds(batch) THEN "active" ELSE status[n]
  BY DEF Save
<1>3. mergedInto' = mergedInto
  BY DEF Save
<1>4. QED
  BY <1>1, <1>2, <1>3 DEF Active, Tombstoned

\* The extracted edges that a save stores are among those its names allow.
LEMMA LinkSetsSubset ==
    ASSUME NEW batch, NEW links \in LinkSets(batch)
    PROVE  links \subseteq Links(batch)
<1>1. CASE links = {}
  BY <1>1
<1>2. ASSUME NEW f \in [1..MaxLinks -> Links(batch)], links = {f[i] : i \in 1..MaxLinks}
      PROVE  links \subseteq Links(batch)
  BY <1>2
<1>3. QED
  BY <1>1, <1>2 DEF LinkSets

\* What a save does to an edge row.
LEMMA SaveEdge ==
    ASSUME NEW batch \in Batches, NEW source \in Sources, Save(batch, source),
           NEW e \in EdgeIds
    PROVE  \/ e \in Links(batch) /\ edge'[e] = "active"
           \/ e \in FlaggedEdges(batch) /\ edge'[e] = "pending"
           \/ edge'[e] = edge[e]
<1>1. PICK links \in LinkSets(batch) :
        edge' = [d \in EdgeIds |-> IF d \in links THEN "active"
                                   ELSE IF d \in FlaggedEdges(batch) THEN "pending"
                                   ELSE edge[d]]
  BY DEF Save
<1>2. links \subseteq Links(batch)
  BY LinkSetsSubset
<1>3. QED
  BY <1>1, <1>2

\* A merge turns the active loser into a tombstone, and leaves the winner active.
LEMMA MergeNodes ==
    ASSUME TypeOK, NEW w \in Ids, NEW l \in Ids, MergeAllowed(w, l), MergeInplace(w, l)
    PROVE  /\ w # l /\ w \in Active /\ l \in Active /\ TypeOf(w) = TypeOf(l)
           /\ Active' = Active \ {l}
           /\ Tombstoned' = Tombstoned \cup {l}
           /\ mergedInto' = [mergedInto EXCEPT ![l] = w]
BY DEF MergeAllowed, MergeInplace, Active, Tombstoned, TypeOK

\* What a merge does to an edge row: it is gone, as it was, or rebuilt from an
\* edge of the loser that has the same status.
LEMMA MergeEdge ==
    ASSUME TypeOK, NEW w \in Ids, NEW l \in Ids, w # l, MergeInplace(w, l), NEW e \in EdgeIds
    PROVE  \/ edge'[e] = "absent" /\ Touches(e, l)
           \/ edge'[e] = edge[e] /\ ~Touches(e, l)
           \/ /\ edge'[e] = edge[LoserEdge(e, w, l)]
              /\ edge[e] = "absent" /\ Inherits(e, w, l) /\ ~Touches(e, l)
BY DEF MergeInplace, MergedEdge

\* A rejection changes the status of its edge and nothing else of the graph.
LEMMA RejectEdge ==
    ASSUME TypeOK, NEW p \in Procs, NEW r \in EdgeIds, RejectReview(p, r)
    PROVE  /\ Active' = Active /\ Tombstoned' = Tombstoned /\ mergedInto' = mergedInto
           /\ Reviewable(r)
           /\ \A e \in EdgeIds : edge'[e] = IF e = r THEN "rejected" ELSE edge[e]
BY DEF RejectReview, Active, Tombstoned, TypeOK

-----------------------------------------------------------------------------
(***************************************************************************)
(* Each invariant is preserved by each kind of step.                       *)
(***************************************************************************)

\* The edge of the loser that an inherited row comes from: it has the same type,
\* and each of its ends is that of the row, or the loser where the row has the
\* winner.
LEMMA LoserEdgeParts ==
    ASSUME NEW w \in Ids, NEW l \in Ids, NEW e \in EdgeIds, Inherits(e, w, l)
    PROVE  /\ LoserEdge(e, w, l) \in Edges
           /\ LoserEdge(e, w, l)[1] = IF e[1] = w THEN l ELSE e[1]
           /\ LoserEdge(e, w, l)[2] = e[2]
           /\ LoserEdge(e, w, l)[3] = IF e[3] = w THEN l ELSE e[3]
           /\ e[1] # e[3] /\ e[1] # l /\ e[3] # l
BY RebuiltType DEF Inherits, LoserEdge, Redirect, IsLoop, Touches

\* Edges stay on active nodes.
LEMMA AnchoredStep ==
    ASSUME TypeOK, EdgesAnchored, [Next]_vars
    PROVE  EdgesAnchored'
<1>1. ASSUME NEW batch \in Batches, NEW source \in Sources, Save(batch, source)
      PROVE  EdgesAnchored'
  <2> SUFFICES ASSUME NEW e \in EdgeIds, edge'[e] # "absent"
               PROVE  e[1] \in Active' /\ e[3] \in Active'
    BY DEF EdgesAnchored, Edges
  <2>1. Active' = Active \cup NewIds(batch) /\ Allocatable(batch)
    BY <1>1, SaveNodes DEF Save
  <2>2. CASE e \in Links(batch)
    BY <2>1, <2>2, LinksType
  <2>3. CASE e \in FlaggedEdges(batch)
    BY <2>1, <2>3, FlaggedType
  <2>4. CASE edge'[e] = edge[e]
    BY <2>1, <2>4 DEF EdgesAnchored, Edges
  <2>5. QED
    BY <1>1, <2>2, <2>3, <2>4, SaveEdge
<1>2. ASSUME NEW p \in Procs, NEW w \in Ids, NEW l \in Ids, NEW r \in EdgeIds \cup {None},
             MergeStep(p, w, l, r)
      PROVE  EdgesAnchored'
  <2> SUFFICES ASSUME NEW e \in EdgeIds, edge'[e] # "absent"
               PROVE  e[1] \in Active' /\ e[3] \in Active'
    BY DEF EdgesAnchored, Edges
  <2>1. w # l /\ w \in Active /\ Active' = Active \ {l} /\ MergeInplace(w, l)
    BY <1>2, MergeNodes DEF MergeStep
  <2>2. CASE edge'[e] = edge[e] /\ ~Touches(e, l)
    BY <2>1, <2>2 DEF EdgesAnchored, Edges, Touches
  <2>3. CASE Inherits(e, w, l)
    BY <2>1, <2>3, LoserEdgeParts DEF EdgesAnchored
  <2>4. QED
    BY <2>1, <2>2, <2>3, MergeEdge
<1>3. ASSUME NEW p \in Procs, NEW e \in EdgeIds, RejectReview(p, e)
      PROVE  EdgesAnchored'
  BY <1>3, RejectEdge DEF EdgesAnchored, Edges, Reviewable
<1>4. CASE QuietStep
  BY <1>4 DEF QuietStep, graphVars, EdgesAnchored, Edges, Active
<1>5. QED
  BY <1>1, <1>2, <1>3, <1>4, StepKinds

\* Tombstones never close a circle: a new one points to an active node, and the
\* others have found their way out without it.
LEMMA ResolveStep ==
    ASSUME TypeOK, TombstonesResolve, [Next]_vars
    PROVE  TombstonesResolve'
<1>1. ASSUME NEW batch \in Batches, NEW source \in Sources, Save(batch, source)
      PROVE  TombstonesResolve'
  BY <1>1, SaveNodes DEF TombstonesResolve
<1>2. ASSUME NEW p \in Procs, NEW w \in Ids, NEW l \in Ids, NEW r \in EdgeIds \cup {None},
             MergeStep(p, w, l, r)
      PROVE  TombstonesResolve'
  <2>1. /\ w # l /\ w \in Active /\ l \in Active /\ TypeOf(w) = TypeOf(l)
        /\ Active' = Active \ {l} /\ Tombstoned' = Tombstoned \cup {l}
        /\ mergedInto' = [mergedInto EXCEPT ![l] = w]
    BY <1>2, MergeNodes DEF MergeStep
  <2>2. Active \cap Tombstoned = {} /\ Tombstoned \subseteq Ids
    BY DEF Active, Tombstoned
  <2>3. mergedInto'[l] = w /\ \A n \in Tombstoned : mergedInto'[n] = mergedInto[n]
    BY <2>1, <2>2 DEF TypeOK
  <2>4. \A n \in Tombstoned' : TypeOf(mergedInto'[n]) = TypeOf(n)
    BY <2>1, <2>3 DEF TombstonesResolve
  <2>5. ASSUME NEW S \in SUBSET Tombstoned', S # {}
        PROVE  \E n \in S : mergedInto'[n] \in (Active' \cup Tombstoned') \ S
    <3>1. CASE l \in S
      BY <2>1, <2>2, <2>3, <3>1
    <3>2. CASE l \notin S
      <4>1. PICK n \in S : mergedInto[n] \in (Active \cup Tombstoned) \ S
        BY <2>1, <2>5, <3>2 DEF TombstonesResolve
      <4>2. QED
        BY <2>1, <2>3, <3>2, <4>1
    <3>3. QED
      BY <3>1, <3>2
  <2>6. QED
    BY <2>4, <2>5 DEF TombstonesResolve
<1>3. ASSUME NEW p \in Procs, NEW e \in EdgeIds, RejectReview(p, e)
      PROVE  TombstonesResolve'
  BY <1>3, RejectEdge DEF TombstonesResolve
<1>4. CASE QuietStep
  BY <1>4 DEF QuietStep, graphVars, TombstonesResolve, Active, Tombstoned
<1>5. QED
  BY <1>1, <1>2, <1>3, <1>4, StepKinds

\* Pending reviews stay decidable: a merge moves them together with its loser.
LEMMA DecidableStep ==
    ASSUME TypeOK, EdgesAnchored, PendingReviewsDecidable, [Next]_vars
    PROVE  PendingReviewsDecidable'
<1> DEFINE Joins(e) == /\ e[2] = "same_as" /\ e[1] # e[3] /\ TypeOf(e[1]) = TypeOf(e[3])
                       /\ e[1] \in Active /\ e[3] \in Active
<1>1. \A e \in EdgeIds : edge[e] = "pending" => Joins(e)
  BY EdgeIdParts DEF PendingReviewsDecidable, Edges, MergeAllowed, Active
<1>2. SUFFICES ASSUME NEW e \in EdgeIds, edge'[e] = "pending"
               PROVE  /\ e[2] = "same_as" /\ e[1] # e[3] /\ TypeOf(e[1]) = TypeOf(e[3])
                      /\ e[1] \in Active' /\ e[3] \in Active'
  BY DEF PendingReviewsDecidable, Edges, MergeAllowed, Active
<1>3. ASSUME NEW batch \in Batches, NEW source \in Sources, Save(batch, source)
      PROVE  Joins(e)'
  <2>1. Active' = Active \cup NewIds(batch) /\ Allocatable(batch)
    BY <1>3, SaveNodes DEF Save
  <2>2. CASE e \in FlaggedEdges(batch)
    <3>1. e[1] \notin Active
      BY <2>1, <2>2, FlaggedType, NewIdsAbsent DEF Active
    <3>2. QED
      BY <2>1, <2>2, <3>1, FlaggedType
  <2>3. CASE edge'[e] = edge[e]
    BY <1>1, <1>2, <2>1, <2>3
  <2>4. QED
    BY <1>2, <1>3, <2>2, <2>3, SaveEdge
<1>4. ASSUME NEW p \in Procs, NEW w \in Ids, NEW l \in Ids, NEW r \in EdgeIds \cup {None},
             MergeStep(p, w, l, r)
      PROVE  Joins(e)'
  <2>1. /\ w # l /\ w \in Active /\ TypeOf(w) = TypeOf(l)
        /\ Active' = Active \ {l} /\ MergeInplace(w, l)
    BY <1>4, MergeNodes DEF MergeStep
  <2>2. CASE edge'[e] = edge[e] /\ ~Touches(e, l)
    BY <1>1, <1>2, <2>1, <2>2 DEF Touches
  <2>3. CASE edge'[e] = edge[LoserEdge(e, w, l)] /\ Inherits(e, w, l)
    <3>1. Joins(LoserEdge(e, w, l)) /\ LoserEdge(e, w, l) \in Edges
      BY <1>1, <1>2, <2>3, LoserEdgeParts DEF Edges
    <3>2. QED
      BY <2>1, <2>3, <3>1, LoserEdgeParts
  <2>4. QED
    BY <1>2, <2>1, <2>2, <2>3, MergeEdge
<1>5. ASSUME NEW p \in Procs, NEW r \in EdgeIds, RejectReview(p, r)
      PROVE  Joins(e)'
  BY <1>1, <1>2, <1>5, RejectEdge
<1>6. CASE QuietStep
  BY <1>1, <1>2, <1>6 DEF QuietStep, graphVars, Active
<1>7. QED
  BY <1>3, <1>4, <1>5, <1>6, StepKinds

\* A review that was decided is not pending, and a node that was merged away is
\* not active: nobody decides them again.
LEMMA SettledForever ==
    ASSUME TypeOK, PendingReviewsDecidable, NEW d \in committed, Settled(d)
    PROVE  /\ d.loser \in Ids => d.loser \notin Active
           /\ d.review \in EdgeIds => edge[d.review] # "pending"
BY NoneAssumption DEF TypeOK, Decision, Settled, Active, Tombstoned,
   PendingReviewsDecidable, Edges, MergeAllowed

\* What a step decides is settled after it.
LEMMA MergeSettles ==
    ASSUME TypeOK, NEW p \in Procs, NEW w \in Ids, NEW l \in Ids,
           NEW r \in EdgeIds \cup {None}, MergeStep(p, w, l, r)
    PROVE  \A d \in committed' \ committed :
              d.loser = l /\ d.review = r /\ Settled(d)'
<1>1. l \in Tombstoned'
  BY MergeNodes DEF MergeStep
<1>2. r # None => r[1] = l \/ r[3] = l
  BY DEF MergeStep, Touches
<1>3. \A d \in committed' \ committed : d.loser = l /\ d.review = r
  BY DEF MergeStep, Decide
<1>4. QED
  BY <1>1, <1>2, <1>3 DEF Settled

\* What was settled before a step is settled after it.
LEMMA SettledStep ==
    ASSUME TypeOK, EdgesAnchored, PendingReviewsDecidable, [Next]_vars,
           NEW d \in committed, Settled(d)
    PROVE  Settled(d)'
<1>1. d.review \in EdgeIds \cup {None} /\ d.loser \in Ids \cup {None}
  BY DEF TypeOK, Decision
<1>2. SUFFICES /\ Tombstoned \subseteq Tombstoned'
               /\ \A e \in EdgeIds : edge[e] \in {"active", "rejected"} =>
                    edge'[e] \in {"active", "rejected"} \/ e[1] \in Tombstoned' \/ e[3] \in Tombstoned'
  BY <1>1 DEF Settled
<1>3. ASSUME NEW batch \in Batches, NEW source \in Sources, Save(batch, source)
      PROVE  /\ Tombstoned \subseteq Tombstoned'
             /\ \A e \in EdgeIds : edge[e] \in {"active", "rejected"} =>
                  edge'[e] \in {"active", "rejected"}
  <2>1. Tombstoned' = Tombstoned /\ Allocatable(batch)
    BY <1>3, SaveNodes DEF Save
  <2>2. ASSUME NEW e \in EdgeIds, edge[e] \in {"active", "rejected"}
        PROVE  edge'[e] \in {"active", "rejected"}
    <3>1. e \notin FlaggedEdges(batch)
      BY <2>1, <2>2, FlaggedType, NewIdsAbsent DEF EdgesAnchored, Edges, Active
    <3>2. QED
      BY <1>3, <2>2, <3>1, SaveEdge
  <2>3. QED
    BY <2>1, <2>2
<1>4. ASSUME NEW p \in Procs, NEW w \in Ids, NEW l \in Ids, NEW r \in EdgeIds \cup {None},
             MergeStep(p, w, l, r)
      PROVE  /\ Tombstoned \subseteq Tombstoned'
             /\ \A e \in EdgeIds : edge[e] \in {"active", "rejected"} =>
                  edge'[e] \in {"active", "rejected"} \/ e[1] \in Tombstoned' \/ e[3] \in Tombstoned'
  <2>1. w # l /\ Tombstoned' = Tombstoned \cup {l} /\ MergeInplace(w, l)
    BY <1>4, MergeNodes DEF MergeStep
  <2>2. ASSUME NEW e \in EdgeIds, edge[e] \in {"active", "rejected"}
        PROVE  edge'[e] \in {"active", "rejected"} \/ e[1] \in Tombstoned' \/ e[3] \in Tombstoned'
    BY <2>1, <2>2, MergeEdge DEF Touches
  <2>3. QED
    BY <2>1, <2>2
<1>5. ASSUME NEW p \in Procs, NEW r \in EdgeIds, RejectReview(p, r)
      PROVE  /\ Tombstoned \subseteq Tombstoned'
             /\ \A e \in EdgeIds : edge[e] \in {"active", "rejected"} =>
                  edge'[e] \in {"active", "rejected"}
  BY <1>5, RejectEdge
<1>6. CASE QuietStep
  BY <1>6 DEF QuietStep, graphVars, Tombstoned
<1>7. QED
  BY <1>3, <1>4, <1>5, <1>6, StepKinds

\* No step decides what was decided before.
LEMMA NewDecision ==
    ASSUME TypeOK, PendingReviewsDecidable, DecisionsSettled, [Next]_vars,
           NEW d \in committed' \ committed, NEW o \in committed
    PROVE  /\ d.loser # None => d.loser # o.loser
           /\ d.review # None => d.review # o.review
           /\ d.loser # None \/ d.review # None
<1>1. /\ o.loser \in Ids => o.loser \notin Active
      /\ o.review \in EdgeIds => edge[o.review] # "pending"
  BY SettledForever DEF DecisionsSettled
<1>2. ASSUME NEW p \in Procs, NEW w \in Ids, NEW l \in Ids, NEW r \in EdgeIds \cup {None},
             MergeStep(p, w, l, r)
      PROVE  /\ d.loser = l /\ l \in Active
             /\ d.review = r /\ (r # None => r \in EdgeIds /\ edge[r] = "pending")
  <2>1. d.loser = l /\ d.review = r
    BY <1>2, MergeSettles
  <2>2. l \in Active
    BY <1>2, MergeNodes DEF MergeStep
  <2>3. r # None => r \in EdgeIds /\ edge[r] = "pending"
    BY <1>2 DEF MergeStep, Reviewable
  <2>4. QED
    BY <2>1, <2>2, <2>3
<1>3. ASSUME NEW p \in Procs, NEW r \in EdgeIds, RejectReview(p, r)
      PROVE  d.loser = None /\ d.review = r /\ edge[r] = "pending"
  <2>1. d = [action |-> "review_reject", via |-> p, winner |-> None,
             loser |-> None, review |-> r]
    BY <1>3 DEF RejectReview, Decide
  <2>2. edge[r] = "pending"
    BY <1>3 DEF RejectReview, Reviewable
  <2>3. QED
    BY <2>1, <2>2
<1>4. ~QuietStep /\ \A batch \in Batches, source \in Sources : ~Save(batch, source)
  BY DEF QuietStep, Save
<1>5. QED
  BY <1>1, <1>2, <1>3, <1>4, StepKinds, NoneAssumption

\* Decisions are settled, and no two of them decide the same thing.
LEMMA DecisionsStep ==
    ASSUME TypeOK, EdgesAnchored, PendingReviewsDecidable, DecisionsSettled, DecidedOnce,
           [Next]_vars
    PROVE  DecisionsSettled' /\ DecidedOnce'
<1>1. \A d \in committed : Settled(d)'
  BY SettledStep DEF DecisionsSettled
<1>2. ASSUME NEW p \in Procs, NEW w \in Ids, NEW l \in Ids, NEW r \in EdgeIds \cup {None},
             MergeStep(p, w, l, r)
      PROVE  /\ \A d \in committed' \ committed : Settled(d)'
             /\ \A d1, d2 \in committed' \ committed : d1 = d2
  BY <1>2, MergeSettles DEF MergeStep, Decide
<1>3. ASSUME NEW p \in Procs, NEW r \in EdgeIds, RejectReview(p, r)
      PROVE  /\ \A d \in committed' \ committed : Settled(d)'
             /\ \A d1, d2 \in committed' \ committed : d1 = d2
  <2>1. edge'[r] = "rejected"
    BY <1>3, RejectEdge
  <2>2. \A d1, d2 \in committed' \ committed : d1 = d2
    BY <1>3 DEF RejectReview, Decide
  <2>3. \A d \in committed' \ committed : d.loser = None /\ d.review = r
    BY <1>3 DEF RejectReview, Decide
  <2>4. QED
    BY <2>1, <2>2, <2>3 DEF Settled
<1>4. ASSUME QuietStep \/ \E batch \in Batches, source \in Sources : Save(batch, source)
      PROVE  committed' \ committed = {}
  BY <1>4 DEF QuietStep, Save
<1>5. /\ \A d \in committed' \ committed : Settled(d)'
      /\ \A d1, d2 \in committed' \ committed : d1 = d2
  BY <1>2, <1>3, <1>4, StepKinds
<1>6. DecidedOnce'
  BY <1>5, NewDecision DEF DecidedOnce
<1>7. QED
  BY <1>1, <1>5, <1>6 DEF DecisionsSettled

-----------------------------------------------------------------------------
(***************************************************************************)
(* The audit trail.                                                        *)
(***************************************************************************)

\* The decisions of the command line that the log lacks, and the sessions that
\* have yet to append theirs.
Unlogged == {d \in committed \ log : d.via \in Cli}
Appending == {p \in Cli : audit[p] # None}

\* Both are finite, as only finitely many sessions ran.
LEMMA CountsFinite ==
    ASSUME IsFiniteSet(committed)
    PROVE  /\ IsFiniteSet(Unlogged) /\ IsFiniteSet(Appending)
           /\ Cardinality(Unlogged) \in Nat /\ Cardinality(Appending) \in Nat
<1>1. IsFiniteSet(Unlogged) /\ IsFiniteSet(Appending)
  BY FS_Subset, ConstantsAssumption DEF Unlogged, Appending
<1>2. QED
  BY <1>1, FS_CardinalityType

\* The part of IInv that the audit trail rests on.
Trail == IsFiniteSet(committed) /\ RecordsOpen /\ AuditTrail

\* Deciding opens a record, which is one more to append if a command line did it.
LEMMA DecideTrail ==
    ASSUME TypeOK, Trail, NEW p \in Procs, audit[p] = None, request'[p] = None,
           \A q \in Procs \ {p} : request'[q] = request[q],
           NEW d \in Decision, d.via = p, d \notin committed,
           NEW before \in SUBSET EdgeIds, Decide(p, d, before)
    PROVE  Trail'
<1>1. /\ committed' = committed \cup {d} /\ log' = log /\ faults' = faults
      /\ audit' = [audit EXCEPT ![p] = [decision |-> d, edgesBefore |-> before]]
  BY DEF Decide
<1>2. [decision |-> d, edgesBefore |-> before] # None
  BY NoneAssumption DEF Audit
<1>3. IsFiniteSet(committed')
  BY <1>1, FS_AddElement DEF Trail
<1>4. log \subseteq committed
  BY DEF Trail, AuditTrail
<1>5. RecordsOpen'
  BY <1>1, <1>4 DEF Trail, RecordsOpen, TypeOK
<1>6. CASE p \in Cli
  <2>1. Unlogged' = Unlogged \cup {d} /\ d \notin Unlogged
    BY <1>1, <1>4, <1>6 DEF Unlogged
  <2>2. Appending' = Appending \cup {p} /\ p \notin Appending
    BY <1>1, <1>2, <1>6 DEF Appending, TypeOK, Procs
  <2>3. /\ Cardinality(Unlogged') = Cardinality(Unlogged) + 1
        /\ Cardinality(Appending') = Cardinality(Appending) + 1
    BY <2>1, <2>2, CountsFinite, FS_AddElement DEF Trail
  <2>4. Cardinality(Unlogged) <= faults + Cardinality(Appending)
    BY DEF Trail, AuditTrail, Unlogged, Appending
  <2>5. Cardinality(Unlogged') <= faults' + Cardinality(Appending')
    BY <1>1, <2>3, <2>4, CountsFinite DEF Trail, TypeOK
  <2>6. AuditTrail'
    BY <1>1, <1>4, <2>5 DEF AuditTrail, Unlogged, Appending
  <2>7. QED
    BY <1>3, <1>5, <2>6 DEF Trail
<1>7. CASE p \notin Cli
  <2>1. Unlogged' = Unlogged
    BY <1>1, <1>7 DEF Unlogged
  <2>2. Appending' = Appending
    BY <1>1, <1>7 DEF Appending, TypeOK, Procs
  <2>3. AuditTrail'
    BY <1>1, <1>4, <2>1, <2>2 DEF Trail, AuditTrail, Unlogged, Appending
  <2>4. QED
    BY <1>3, <1>5, <2>3 DEF Trail
<1>8. QED
  BY <1>6, <1>7

\* A session lets go of the record it holds: it appended it, or nobody ever will,
\* and then either a fault was counted or it was no command line's.
LEMMA CloseTrail ==
    ASSUME TypeOK, Trail, NEW p \in Procs, audit' = [audit EXCEPT ![p] = None],
           committed' = committed,
           \A q \in Procs : request'[q] \in {request[q], None},
           \/ audit[p] # None /\ log' = log \cup {audit[p].decision} /\ faults' = faults
           \/ log' = log /\ faults' = faults + 1
           \/ log' = log /\ faults' = faults /\ p \notin Cli
    PROVE  Trail'
<1>1. /\ log \subseteq committed
      /\ Cardinality(Unlogged) <= faults + Cardinality(Appending)
  BY DEF Trail, AuditTrail, Unlogged, Appending
<1>2. /\ audit[p] # None => audit[p].decision \in committed \ log /\ audit[p].decision.via = p
      /\ \A q \in Procs \ {p} : audit'[q] = audit[q]
      /\ audit'[p] = None
  BY DEF Trail, RecordsOpen, TypeOK
<1>3. log' \subseteq committed'
  BY <1>1, <1>2
<1>4. RecordsOpen'
  <2> SUFFICES ASSUME NEW q \in Procs, audit'[q] # None
               PROVE  /\ audit'[q].decision \in committed' \ log'
                      /\ audit'[q].decision.via = q
                      /\ request'[q] = None
    BY DEF RecordsOpen
  <2>1. q # p /\ audit'[q] = audit[q]
    BY <1>2
  <2>2. /\ audit[q].decision \in committed \ log
        /\ audit[q].decision.via = q
        /\ request[q] = None
    BY <2>1 DEF Trail, RecordsOpen
  <2>3. QED
    BY <1>2, <2>1, <2>2
<1>5. /\ Cardinality(Unlogged) \in Nat /\ Cardinality(Appending) \in Nat /\ faults \in Nat
      /\ IsFiniteSet(Unlogged) /\ IsFiniteSet(Appending)
  BY CountsFinite, ConstantsAssumption DEF Trail, TypeOK
<1>6. Appending' = Appending \ {p}
  BY <1>2 DEF Appending, Procs
<1>7. Cardinality(Appending') = IF p \in Appending THEN Cardinality(Appending) - 1
                                ELSE Cardinality(Appending)
  BY <1>5, <1>6, FS_RemoveElement
<1>8. Cardinality(Appending') \in Nat
  BY <1>5, <1>6, FS_RemoveElement, FS_CardinalityType
<1>9. CASE audit[p] # None /\ log' = log \cup {audit[p].decision} /\ faults' = faults
  <2>1. CASE p \in Cli
    <3>1. Unlogged' = Unlogged \ {audit[p].decision} /\ audit[p].decision \in Unlogged
      BY <1>2, <1>9, <2>1 DEF Unlogged
    <3>2. Cardinality(Unlogged') = Cardinality(Unlogged) - 1
      BY <1>5, <3>1, FS_RemoveElement
    <3>3. Cardinality(Unlogged') <= faults' + Cardinality(Appending')
      BY <1>1, <1>5, <1>7, <1>8, <1>9, <3>2
    <3>4. QED
      BY <1>3, <1>4, <3>3 DEF Trail, AuditTrail, Unlogged, Appending
  <2>2. CASE p \notin Cli
    <3>1. Unlogged' = Unlogged /\ Appending' = Appending
      BY <1>2, <1>6, <1>9, <2>2 DEF Unlogged, Appending
    <3>2. QED
      BY <1>1, <1>3, <1>4, <1>9, <3>1 DEF Trail, AuditTrail, Unlogged, Appending
  <2>3. QED
    BY <2>1, <2>2
<1>10. CASE log' = log /\ faults' = faults + 1
  <2>1. Unlogged' = Unlogged
    BY <1>10 DEF Unlogged
  <2>2. Cardinality(Unlogged') <= faults' + Cardinality(Appending')
    BY <1>1, <1>5, <1>7, <1>8, <1>10, <2>1
  <2>3. QED
    BY <1>3, <1>4, <2>2 DEF Trail, AuditTrail, Unlogged, Appending
<1>11. CASE log' = log /\ faults' = faults /\ p \notin Cli
  <2>1. Unlogged' = Unlogged /\ Appending' = Appending
    BY <1>6, <1>11 DEF Unlogged, Appending
  <2>2. QED
    BY <1>1, <1>3, <1>4, <1>11, <2>1 DEF Trail, AuditTrail, Unlogged, Appending
<1>12. QED
  BY <1>9, <1>10, <1>11

\* The audit trail follows every step of a session.
LEMMA TrailSession ==
    ASSUME TypeOK, PendingReviewsDecidable, DecisionsSettled, Trail,
           NEW p \in Procs, SessionStep(p)
    PROVE  Trail'
<1>1. ASSUME NEW w \in Ids, NEW l \in Ids, Merge(p, w, l)
      PROVE  Trail'
  <2> DEFINE d == [action |-> "merge", via |-> p, winner |-> w, loser |-> l, review |-> None]
  <2>1. d \in Decision /\ d.via = p /\ d.loser = l
    BY DecisionType
  <2>2. l \in Active
    BY <1>1 DEF Merge, MergeAllowed, Active
  <2>3. d \notin committed
    BY <2>1, <2>2, SettledForever DEF DecisionsSettled
  <2>4. Decide(p, d, Captured(w, l)) /\ Idle(p) /\ request' = request
    BY <1>1 DEF Merge
  <2> HIDE DEF d
  <2>5. QED
    BY <2>1, <2>3, <2>4, CapturedType, DecideTrail DEF Idle
<1>2. ASSUME NEW e \in EdgeIds, NEW w \in {e[1], e[3]}, ReadReview(p, e, w)
      PROVE  Trail'
  BY <1>2 DEF ReadReview, Idle, Trail, RecordsOpen, AuditTrail, TypeOK
<1>3. ASSUME ConfirmReview(p)
      PROVE  Trail'
  <2> DEFINE e == request[p].review
             w == request[p].winner
             l == OtherEnd(e, w)
             d == [action |-> "review_confirm", via |-> p, winner |-> w,
                   loser |-> l, review |-> e]
             before == Captured(w, l) \cup {e}
  <2>1. e \in EdgeIds /\ w \in Ids /\ l \in Ids
    BY <1>3, ReviewEnds DEF ConfirmReview
  <2>2. d \in Decision /\ d.via = p /\ d.review = e /\ before \in SUBSET EdgeIds
    BY <2>1, DecisionType, CapturedType
  <2>3. edge[e] = "pending" /\ Decide(p, d, before)
        /\ request' = [request EXCEPT ![p] = None]
    BY <1>3 DEF ConfirmReview, Reviewable
  <2> HIDE DEF e, w, l, d, before
  <2>4. d \notin committed
    BY <2>1, <2>2, <2>3, SettledForever DEF DecisionsSettled
  <2>5. audit[p] = None
    BY <1>3 DEF ConfirmReview, Trail, RecordsOpen
  <2>6. request'[p] = None /\ \A q \in Procs \ {p} : request'[q] = request[q]
    BY <2>3 DEF TypeOK
  <2>7. QED
    BY <2>2, <2>3, <2>4, <2>5, <2>6, DecideTrail
<1>4. ASSUME RefuseConfirm(p)
      PROVE  Trail'
  BY <1>4 DEF RefuseConfirm, Trail, RecordsOpen, AuditTrail, TypeOK
<1>5. ASSUME NEW e \in EdgeIds, RejectReview(p, e)
      PROVE  Trail'
  <2> DEFINE d == [action |-> "review_reject", via |-> p, winner |-> None,
                   loser |-> None, review |-> e]
  <2>1. d \in Decision /\ d.via = p /\ d.review = e /\ {e} \in SUBSET EdgeIds
    BY DecisionType
  <2>2. edge[e] = "pending" /\ Decide(p, d, {e}) /\ Idle(p) /\ request' = request
    BY <1>5 DEF RejectReview, Reviewable
  <2> HIDE DEF d
  <2>3. d \notin committed
    BY <2>1, <2>2, SettledForever DEF DecisionsSettled
  <2>4. QED
    BY <2>1, <2>2, <2>3, DecideTrail DEF Idle
<1>6. ASSUME AppendAudit(p)
      PROVE  Trail'
  BY <1>6, CloseTrail DEF AppendAudit
<1>7. ASSUME AppendFails(p)
      PROVE  Trail'
  BY <1>7, CloseTrail DEF AppendFails
<1>8. ASSUME AnswerMcp(p)
      PROVE  Trail'
  <2>1. p \notin Cli
    BY <1>8, ConstantsAssumption DEF AnswerMcp
  <2>2. QED
    BY <1>8, <2>1, CloseTrail DEF AnswerMcp
<1>9. ASSUME Crash(p)
      PROVE  Trail'
  <2>1. \A q \in Procs : request'[q] \in {request[q], None}
    BY <1>9 DEF Crash, TypeOK
  <2>2. QED
    BY <1>9, <2>1, CloseTrail DEF Crash
<1>10. QED
  BY <1>1, <1>2, <1>3, <1>4, <1>5, <1>6, <1>7, <1>8, <1>9 DEF SessionStep

-----------------------------------------------------------------------------
(***************************************************************************)
(* The inductive invariant.                                                *)
(***************************************************************************)

\* It holds of the empty database.
LEMMA InvInit == Init => IInv
<1> SUFFICES ASSUME Init
             PROVE  IInv
  OBVIOUS
<1>1. TypeOK
  BY ConstantsAssumption DEF Init, TypeOK, EdgeStatuses
<1>2. Edges = {} /\ Tombstoned = {} /\ committed = {} /\ log = {}
  BY DEF Init, Edges, Tombstoned
<1>3. EdgesAnchored /\ TombstonesResolve /\ PendingReviewsDecidable
  BY <1>2 DEF EdgesAnchored, TombstonesResolve, PendingReviewsDecidable
<1>4. DecisionsSettled /\ DecidedOnce
  BY <1>2 DEF DecisionsSettled, DecidedOnce
<1>5. RecordsOpen
  BY DEF RecordsOpen, Init
<1>6. Unlogged = {} /\ Appending = {}
  BY <1>2 DEF Unlogged, Appending, Init, Procs
<1>7. Cardinality(Unlogged) <= faults + Cardinality(Appending)
  BY <1>6, FS_EmptySet DEF Init
<1>8. AuditTrail
  BY <1>2, <1>7 DEF AuditTrail, Unlogged, Appending
<1>9. QED
  BY <1>1, <1>2, <1>3, <1>4, <1>5, <1>8, FS_EmptySet DEF IInv

\* Every step preserves it.
LEMMA InvStep == IInv /\ [Next]_vars => IInv'
<1> SUFFICES ASSUME IInv, [Next]_vars
             PROVE  IInv'
  OBVIOUS
<1> USE DEF IInv
<1>1. TypeOK'
  <2>1. CASE SaveStep
    BY <2>1, SaveType DEF SaveStep
  <2>2. CASE \E p \in Procs : SessionStep(p)
    BY <2>2, SessionType
  <2>3. CASE UNCHANGED vars
    BY <2>3 DEF vars, TypeOK
  <2>4. QED
    BY <2>1, <2>2, <2>3 DEF Next
<1>2. EdgesAnchored' /\ TombstonesResolve' /\ PendingReviewsDecidable'
  BY AnchoredStep, ResolveStep, DecidableStep
<1>3. DecisionsSettled' /\ DecidedOnce'
  BY DecisionsStep
<1>4. Trail'
  <2>1. Trail
    BY DEF Trail
  <2>2. CASE SaveStep
    BY <2>1, <2>2 DEF SaveStep, Save, Trail, RecordsOpen, AuditTrail
  <2>3. CASE \E p \in Procs : SessionStep(p)
    BY <2>1, <2>3, TrailSession
  <2>4. CASE UNCHANGED vars
    BY <2>1, <2>4 DEF vars, Trail, RecordsOpen, AuditTrail
  <2>5. QED
    BY <2>2, <2>3, <2>4 DEF Next
<1>5. QED
  BY <1>1, <1>2, <1>3, <1>4 DEF Trail

\* It holds throughout.
LEMMA Invariance == Spec => []IInv
BY InvInit, InvStep, PTL DEF Spec

-----------------------------------------------------------------------------
(***************************************************************************)
(* The safety of the graph, for any number of types, names, documents and  *)
(* sessions.                                                               *)
(***************************************************************************)

\* Every table and every session holds values of its kind.
THEOREM TypeCorrect == Spec => []TypeOK
<1>1. IInv => TypeOK
  BY DEF IInv
<1>2. QED
  BY <1>1, Invariance, PTL

\* No edge row is ever left on a tombstone or on a node that was never stored.
THEOREM EdgesStayAnchored == Spec => []EdgesAnchored
<1>1. IInv => EdgesAnchored
  BY DEF IInv
<1>2. QED
  BY <1>1, Invariance, PTL

\* However many merges follow one another, every tombstone leads to an active node.
THEOREM TombstonesAlwaysResolve == Spec => []TombstonesResolve
<1>1. IInv => TombstonesResolve
  BY DEF IInv
<1>2. QED
  BY <1>1, Invariance, PTL

\* A pending review can always be confirmed.
THEOREM ReviewsStayDecidable == Spec => []PendingReviewsDecidable
<1>1. IInv => PendingReviewsDecidable
  BY DEF IInv
<1>2. QED
  BY <1>1, Invariance, PTL

\* No two sessions decide the same review or merge away the same node.
THEOREM NothingDecidedTwice == Spec => []DecidedOnce
<1>1. IInv => DecidedOnce
  BY DEF IInv
<1>2. QED
  BY <1>1, Invariance, PTL

\* The log tells of committed decisions only, and of all those of the command line
\* but one for each crash or failed write and each session about to append.
THEOREM TrailKept == Spec => []AuditTrail
<1>1. IInv => AuditTrail
  BY DEF IInv
<1>2. QED
  BY <1>1, Invariance, PTL

-----------------------------------------------------------------------------
(***************************************************************************)
(* What a single step never does.                                          *)
(***************************************************************************)

\* The only node that a step merges away is the loser of its merge.
LEMMA OnlyMergesMerge ==
    ASSUME TypeOK, [Next]_vars, NEW l \in MergedNow
    PROVE  \E p \in Procs, w \in Ids, r \in EdgeIds \cup {None} :
              MergeStep(p, w, l, r) /\ mergedInto'[l] = w
<1>1. l \in Active /\ l \in Tombstoned' /\ l \notin Tombstoned /\ l \in Ids
  BY DEF MergedNow, Active, Tombstoned
<1>2. ASSUME NEW batch \in Batches, NEW source \in Sources, Save(batch, source)
      PROVE  FALSE
  BY <1>1, <1>2, SaveNodes
<1>3. ASSUME NEW p \in Procs, NEW w \in Ids, NEW k \in Ids, NEW r \in EdgeIds \cup {None},
             MergeStep(p, w, k, r)
      PROVE  k = l /\ mergedInto'[l] = w
  BY <1>1, <1>3, MergeNodes DEF MergeStep, TypeOK
<1>4. ASSUME NEW p \in Procs, NEW e \in EdgeIds, RejectReview(p, e)
      PROVE  FALSE
  BY <1>1, <1>4, RejectEdge
<1>5. ~QuietStep
  BY <1>1 DEF QuietStep, graphVars, Tombstoned
<1>6. QED
  BY <1>2, <1>3, <1>4, <1>5, StepKinds

\* No step loses what the database knows of where a node came from.
LEMMA LineageStep ==
    ASSUME TypeOK, [Next]_vars, NEW n \in Ids
    PROVE  KeepsLineage(n)
<1>1. ASSUME NEW batch \in Batches, NEW source \in Sources, Save(batch, source)
      PROVE  KeepsLineage(n)
  <2>1. /\ mergedInto' = mergedInto
        /\ NewIds(batch) \subseteq {m \in Ids : status[m] = "absent"}
        /\ status'[n] = IF n \in NewIds(batch) THEN "active" ELSE status[n]
    BY <1>1, NewIdsAbsent DEF Save
  <2>2. \/ lineage'[n] = lineage[n]
        \/ lineage'[n] = lineage[n] \cup {source} /\ (n \in NewIds(batch) \/ n \in Active)
    BY <1>1 DEF Save
  <2>3. QED
    BY <2>1, <2>2 DEF KeepsLineage, Active, Tombstoned, TypeOK
<1>2. ASSUME NEW p \in Procs, NEW w \in Ids, NEW l \in Ids, NEW r \in EdgeIds \cup {None},
             MergeStep(p, w, l, r)
      PROVE  KeepsLineage(n)
  BY <1>2 DEF MergeStep, MergeAllowed, MergeInplace, MergedLineage, KeepsLineage,
              Active, Tombstoned, TypeOK
<1>3. ASSUME UNCHANGED <<status, mergedInto, lineage>>
      PROVE  KeepsLineage(n)
  BY <1>3 DEF KeepsLineage, Active, Tombstoned, TypeOK
<1>4. QED
  BY <1>1, <1>2, <1>3, StepKinds DEF RejectReview, QuietStep, graphVars

\* Sources are never lost, by saves, merges or reviews.
THEOREM LineageAlwaysKept == Spec => LineageKept
<1>1. IInv /\ [Next]_vars => [\A n \in Ids : KeepsLineage(n)]_vars
  BY LineageStep DEF IInv
<1>2. QED
  BY <1>1, Invariance, PTL DEF Spec, LineageKept

\* The loser's edge e, rebuilt: the winner has the rebuilt row afterwards, with
\* the sources of e among its own.
LEMMA RebuiltKept ==
    ASSUME TypeOK, NEW w \in Ids, NEW l \in Ids, w # l, MergeInplace(w, l),
           NEW e \in Edges, Touches(e, l), ~IsLoop(Rebuilt(e, w, l))
    PROVE  /\ Inherits(Rebuilt(e, w, l), w, l)
           /\ LoserEdge(Rebuilt(e, w, l), w, l) = e
           /\ edge'[Rebuilt(e, w, l)] # "absent"
           /\ edgeLineage[e] \subseteq edgeLineage'[Rebuilt(e, w, l)]
<1> DEFINE r == Rebuilt(e, w, l)
<1>1. e \in EdgeIds /\ edge[e] # "absent"
  BY DEF Edges
<1>2. /\ r \in EdgeIds
      /\ r[1] = Redirect(e[1], w, l) /\ r[2] = e[2] /\ r[3] = Redirect(e[3], w, l)
  BY <1>1, RebuiltType
<1>3. Touches(r, w) /\ ~Touches(r, l)
  BY <1>2 DEF Touches, Redirect
<1>4. LoserEdge(r, w, l) = e
  <2>1. /\ LoserEdge(r, w, l)[1] = Redirect(r[1], l, w)
        /\ LoserEdge(r, w, l)[2] = r[2]
        /\ LoserEdge(r, w, l)[3] = Redirect(r[3], l, w)
        /\ LoserEdge(r, w, l) \in EdgeIds
    BY <1>2, RebuiltType DEF LoserEdge
  <2>2. r[1] # r[3]
    BY DEF IsLoop
  <2>3. Redirect(r[1], l, w) = e[1] /\ Redirect(r[3], l, w) = e[3]
    BY <1>2, <2>2 DEF Redirect, Touches
  <2>4. QED
    BY <1>1, <1>2, <2>1, <2>3, EdgeIdParts
<1>5. Inherits(r, w, l)
  BY <1>3, <1>4 DEF Inherits, IsLoop
<1>6. edge'[r] # "absent"
  BY <1>1, <1>2, <1>3, <1>4, <1>5 DEF MergeInplace, MergedEdge
<1>7. edgeLineage[e] \subseteq edgeLineage'[r]
  BY <1>2, <1>3, <1>4, <1>5 DEF MergeInplace, MergedEdgeLineage
<1>8. QED
  BY <1>4, <1>5, <1>6, <1>7

\* Merges lose no edge and no source of an edge.
THEOREM MergesAlwaysKeepEdges == Spec => MergeKeepsEdges
<1>1. ASSUME TypeOK, [Next]_vars, NEW l \in MergedNow, NEW e \in Edges
      PROVE  KeepsEdge(e, mergedInto'[l], l)
  <2>1. PICK p \in Procs, w \in Ids, r \in EdgeIds \cup {None} :
          MergeStep(p, w, l, r) /\ mergedInto'[l] = w
    BY <1>1, OnlyMergesMerge
  <2>2. w # l /\ MergeInplace(w, l) /\ l \in Ids
    BY <2>1 DEF MergeStep, MergeAllowed, MergedNow, Active
  <2>3. CASE Touches(e, l)
    BY <1>1, <2>1, <2>2, <2>3, RebuiltKept DEF KeepsEdge
  <2>4. CASE ~Touches(e, l)
    BY <2>1, <2>2, <2>4 DEF MergeInplace, MergedEdge, MergedEdgeLineage, Edges, KeepsEdge
  <2>5. QED
    BY <2>3, <2>4
<1>2. IInv /\ [Next]_vars =>
        [\A l \in MergedNow : \A e \in Edges : KeepsEdge(e, mergedInto'[l], l)]_vars
  BY <1>1 DEF IInv
<1>3. QED
  BY <1>2, Invariance, PTL DEF Spec, MergeKeepsEdges

\* Where the two nodes of a merge disagree on an attribute, the winner remembers both
\* values, as its own or in a conflict (gate.py, _merge_inplace).
THEOREM MergesAlwaysRecordConflicts == Spec => MergeRecordsConflict
<1> DEFINE Remembers(w, v) == attr'[w] = v \/ \E c \in conflicts'[w] : v \in {c[1], c[2]}
<1>1. ASSUME TypeOK, [Next]_vars, NEW l \in MergedNow,
             NEW v \in {attr[l], attr[mergedInto'[l]]} \ {None}
      PROVE  Remembers(mergedInto'[l], v)
  <2>1. PICK p \in Procs, w \in Ids, r \in EdgeIds \cup {None} :
          MergeStep(p, w, l, r) /\ mergedInto'[l] = w
    BY <1>1, OnlyMergesMerge
  <2>2. w # l /\ MergeInplace(w, l) /\ l \in Ids
    BY <2>1 DEF MergeStep, MergeAllowed, MergedNow, Active
  <2>3. /\ attr'[w] = MergedAttr(w, l) /\ conflicts'[w] = MergedConflicts(w, l)
        /\ v \in {attr[l], attr[w]} /\ v # None
    BY <1>1, <2>1, <2>2 DEF MergeInplace, TypeOK
  <2>4. CASE v = attr'[w]
    BY <2>1, <2>4
  <2>5. CASE v # attr'[w]
    <3>1. attr[l] # None /\ attr[w] # None /\ attr[l] # attr[w] /\ v = attr[l]
      BY <2>3, <2>5 DEF MergedAttr
    <3>2. <<attr[w], attr[l]>> \in conflicts'[w]
      BY <2>3, <3>1 DEF MergedConflicts
    <3>3. v \in {<<attr[w], attr[l]>>[1], <<attr[w], attr[l]>>[2]}
      BY <3>1
    <3>4. QED
      BY <2>1, <3>2, <3>3
  <2>6. QED
    BY <2>4, <2>5
<1>2. IInv /\ [Next]_vars =>
        [\A l \in MergedNow : \A v \in {attr[l], attr[mergedInto'[l]]} \ {None} :
            LET w == mergedInto'[l]
            IN  attr'[w] = v \/ \E c \in conflicts'[w] : v \in {c[1], c[2]}]_vars
  BY <1>1 DEF IInv
<1>3. QED
  BY <1>2, Invariance, PTL DEF Spec, MergeRecordsConflict

\* A row that a merge changes or deletes was captured.
LEMMA ChangedCaptured ==
    ASSUME TypeOK, NEW w \in Ids, NEW l \in Ids, w # l, MergeInplace(w, l), NEW e \in Edges,
           edge'[e] # edge[e] \/ edgeLineage'[e] # edgeLineage[e]
    PROVE  e \in Captured(w, l)
<1>1. e \in EdgeIds /\ edge[e] # "absent"
  BY DEF Edges
<1>2. CASE Touches(e, l)
  BY <1>2 DEF Captured
<1>3. CASE ~Touches(e, l)
  <2>1. Inherits(e, w, l)
    BY <1>1, <1>3 DEF MergeInplace, MergedEdge, MergedEdgeLineage
  <2> DEFINE d == LoserEdge(e, w, l)
  <2>2. /\ d \in Edges
        /\ d[1] = IF e[1] = w THEN l ELSE e[1]
        /\ d[2] = e[2]
        /\ d[3] = IF e[3] = w THEN l ELSE e[3]
        /\ e[1] # l /\ e[3] # l /\ Touches(e, w)
    BY <1>1, <2>1, LoserEdgeParts DEF Inherits
  <2>3. Touches(d, l)
    BY <2>2 DEF Touches
  <2>4. /\ Rebuilt(d, w, l) \in EdgeIds
        /\ Rebuilt(d, w, l)[1] = e[1] /\ Rebuilt(d, w, l)[2] = e[2]
        /\ Rebuilt(d, w, l)[3] = e[3]
    BY <2>2, RebuiltType DEF Edges, Redirect
  <2>5. Rebuilt(d, w, l) = e
    BY <1>1, <2>4, EdgeIdParts
  <2>6. QED
    BY <2>2, <2>3, <2>5 DEF Captured
<1>4. QED
  BY <1>2, <1>3

\* The record that a decision returns holds every edge row it changed.
LEMMA CompleteStep ==
    ASSUME TypeOK, RecordsOpen, Next, NEW p \in Procs, audit[p] = None, audit'[p] # None
    PROVE  {e \in Edges : edge'[e] # edge[e] \/ edgeLineage'[e] # edgeLineage[e]}
              \subseteq audit'[p].edgesBefore
<1>1. ~SaveStep
  BY DEF SaveStep, Save
<1>2. PICK q \in Procs : SessionStep(q)
  BY <1>1 DEF Next
<1>3. ASSUME NEW w \in Ids, NEW l \in Ids, w # l, MergeInplace(w, l),
             NEW d \in Decision, NEW before \in SUBSET EdgeIds,
             Captured(w, l) \subseteq before, Decide(q, d, before)
      PROVE  {e \in Edges : edge'[e] # edge[e] \/ edgeLineage'[e] # edgeLineage[e]}
                \subseteq audit'[p].edgesBefore
  <2>1. audit'[p].edgesBefore = before
    BY <1>3 DEF Decide, TypeOK
  <2>2. QED
    BY <1>3, <2>1, ChangedCaptured
<1>4. ASSUME NEW w \in Ids, NEW l \in Ids, Merge(q, w, l)
      PROVE  {e \in Edges : edge'[e] # edge[e] \/ edgeLineage'[e] # edgeLineage[e]}
                \subseteq audit'[p].edgesBefore
  <2> DEFINE d == [action |-> "merge", via |-> q, winner |-> w, loser |-> l, review |-> None]
  <2>1. d \in Decision /\ Captured(w, l) \in SUBSET EdgeIds
    BY DecisionType, CapturedType
  <2>2. w # l /\ MergeInplace(w, l) /\ Decide(q, d, Captured(w, l))
    BY <1>4 DEF Merge, MergeAllowed
  <2> HIDE DEF d
  <2>3. QED
    BY <1>3, <2>1, <2>2
<1>5. ASSUME ConfirmReview(q)
      PROVE  {e \in Edges : edge'[e] # edge[e] \/ edgeLineage'[e] # edgeLineage[e]}
                \subseteq audit'[p].edgesBefore
  <2> DEFINE r == request[q].review
             w == request[q].winner
             l == OtherEnd(r, w)
             d == [action |-> "review_confirm", via |-> q, winner |-> w,
                   loser |-> l, review |-> r]
             before == Captured(w, l) \cup {r}
  <2>1. r \in EdgeIds /\ w \in Ids /\ l \in Ids
    BY <1>5, ReviewEnds DEF ConfirmReview
  <2>2. d \in Decision /\ before \in SUBSET EdgeIds /\ Captured(w, l) \subseteq before
    BY <2>1, DecisionType, CapturedType
  <2>3. w # l /\ MergeInplace(w, l) /\ Decide(q, d, before)
    BY <1>5 DEF ConfirmReview, MergeAllowed
  <2> HIDE DEF r, w, l, d, before
  <2>4. QED
    BY <1>3, <2>1, <2>2, <2>3
<1>6. ASSUME NEW r \in EdgeIds, RejectReview(q, r)
      PROVE  {e \in Edges : edge'[e] # edge[e] \/ edgeLineage'[e] # edgeLineage[e]}
                \subseteq audit'[p].edgesBefore
  <2>1. audit'[p].edgesBefore = {r}
    BY <1>6 DEF RejectReview, Decide, TypeOK
  <2>2. edgeLineage' = edgeLineage
    BY <1>6 DEF RejectReview
  <2>3. QED
    BY <1>6, <2>1, <2>2, RejectEdge DEF Edges
<1>7. ASSUME NEW r \in EdgeIds, NEW w \in {r[1], r[3]}, ReadReview(q, r, w)
      PROVE  FALSE
  BY <1>7 DEF ReadReview
<1>8. ~RefuseConfirm(q)
  BY DEF RefuseConfirm
<1>9. ~(AppendAudit(q) \/ AppendFails(q) \/ AnswerMcp(q) \/ Crash(q))
  BY DEF AppendAudit, AppendFails, AnswerMcp, Crash, TypeOK
<1>10. QED
  BY <1>2, <1>4, <1>5, <1>6, <1>7, <1>8, <1>9 DEF SessionStep

\* What the record of a merge or a review leaves out did not change.
THEOREM AuditAlwaysComplete == Spec => AuditComplete
<1> DEFINE A == \A p \in Procs : (audit[p] = None /\ audit'[p] # None) =>
                  {e \in Edges : edge'[e] # edge[e] \/ edgeLineage'[e] # edgeLineage[e]}
                      \subseteq audit'[p].edgesBefore
<1>1. IInv /\ [Next]_vars => [A]_vars
  BY CompleteStep DEF IInv
<1>2. QED
  BY <1>1, Invariance, PTL DEF Spec, AuditComplete

\* No step takes a pending review away unseen.
LEMMA ReviewStep ==
    ASSUME TypeOK, PendingReviewsDecidable, DecisionsSettled, [Next]_vars,
           NEW e \in Edges, edge[e] = "pending"
    PROVE  KeepsReview(e)
<1>1. e \in EdgeIds /\ e[2] = "same_as"
  BY DEF Edges, PendingReviewsDecidable
<1>2. ASSUME NEW batch \in Batches, NEW source \in Sources, Save(batch, source)
      PROVE  KeepsReview(e)
  <2>1. PICK links \in LinkSets(batch) :
          /\ edge' = [d \in EdgeIds |-> IF d \in links THEN "active"
                                        ELSE IF d \in FlaggedEdges(batch) THEN "pending"
                                        ELSE edge[d]]
          /\ edgeLineage' = [d \in EdgeIds |-> IF d \in links THEN {source}
                                               ELSE IF d \in FlaggedEdges(batch) THEN {}
                                               ELSE edgeLineage[d]]
    BY <1>2 DEF Save
  <2>2. committed' = committed
    BY <1>2 DEF Save
  <2>3. CASE e \in links
    <3>1. links \subseteq Links(batch)
      BY <2>1, LinkSetsSubset
    <3>2. e[2] \in ExtractedSems
      BY <2>3, <3>1 DEF Links
    <3>3. edge'[e] = "active" /\ edgeLineage'[e] = {source}
      BY <1>1, <2>1, <2>3
    <3>4. QED
      BY <1>1, <2>2, <3>2, <3>3 DEF KeepsReview
  <2>4. CASE e \notin links
    BY <1>1, <2>1, <2>4 DEF KeepsReview
  <2>5. QED
    BY <2>3, <2>4
<1>3. ASSUME NEW p \in Procs, NEW w \in Ids, NEW l \in Ids, NEW r \in EdgeIds \cup {None},
             MergeStep(p, w, l, r)
      PROVE  KeepsReview(e)
  <2>1. w # l /\ MergeInplace(w, l)
    BY <1>3 DEF MergeStep, MergeAllowed
  <2>2. CASE ~Touches(e, l)
    BY <1>1, <2>1, <2>2 DEF MergeInplace, MergedEdge, KeepsReview
  <2>3. CASE Touches(e, l)
    <3> DEFINE b == Rebuilt(e, w, l)
    <3>1. l \in MergedNow /\ mergedInto'[l] = w
      BY <1>3, MergeNodes DEF MergeStep, MergedNow, Active, Tombstoned, TypeOK
    <3>2. CASE IsLoop(b)
      BY <2>3, <3>1, <3>2 DEF KeepsReview
    <3>3. CASE ~IsLoop(b)
      <4>1. b \in EdgeIds
        BY <1>1, RebuiltType
      <4>2. Inherits(b, w, l) /\ LoserEdge(b, w, l) = e
        BY <2>1, <2>3, <3>3, RebuiltKept
      <4>3. edge'[b] = IF edge[b] = "absent" THEN edge[e] ELSE edge[b]
        BY <2>1, <4>1, <4>2 DEF MergeInplace, MergedEdge, Inherits
      <4>4. QED
        BY <2>3, <3>1, <4>3 DEF KeepsReview
    <3>4. QED
      BY <3>2, <3>3
  <2>4. QED
    BY <2>2, <2>3
<1>4. ASSUME NEW p \in Procs, NEW r \in EdgeIds, RejectReview(p, r)
      PROVE  KeepsReview(e)
  <2>1. CASE e # r
    BY <1>1, <1>4, <2>1, RejectEdge DEF KeepsReview
  <2>2. CASE e = r
    <3> DEFINE d == [action |-> "review_reject", via |-> p, winner |-> None,
                     loser |-> None, review |-> e]
    <3>1. d \in committed' /\ d.review = e
      BY <1>4, <2>2 DEF RejectReview, Decide
    <3>2. d \notin committed
      BY <1>1, <3>1, SettledForever DEF DecisionsSettled
    <3>3. QED
      BY <3>1, <3>2 DEF KeepsReview
  <2>3. QED
    BY <2>1, <2>2
<1>5. CASE QuietStep
  BY <1>5 DEF QuietStep, graphVars, KeepsReview
<1>6. QED
  BY <1>2, <1>3, <1>4, <1>5, StepKinds

\* Pending reviews are decided, moved or overruled, and never just lost.
THEOREM ReviewsAlwaysDecided == Spec => ReviewsOnlyDecided
<1>1. IInv /\ [Next]_vars => [\A e \in Edges : edge[e] = "pending" => KeepsReview(e)]_vars
  BY ReviewStep DEF IInv
<1>2. QED
  BY <1>1, Invariance, PTL DEF Spec, ReviewsOnlyDecided

-----------------------------------------------------------------------------
(***************************************************************************)
(* The graph implements IdentityClasses, for every value of the constants: *)
(* where merged_into leads to is unique and always exists, and each step   *)
(* moves it as the abstract specification allows.                          *)
(***************************************************************************)

Known == Active \cup Tombstoned

\* A tombstone is merged into a known node of its type.
LEMMA MergedIntoKnown ==
    ASSUME TombstonesResolve, NEW n \in Tombstoned
    PROVE  mergedInto[n] \in Known /\ TypeOf(mergedInto[n]) = TypeOf(n)
<1>1. {n} \in SUBSET Tombstoned /\ {n} # {}
  OBVIOUS
<1>2. \E m \in {n} : mergedInto[m] \in Known \ {n}
  BY <1>1 DEF TombstonesResolve, Known
<1>3. QED
  BY <1>2 DEF TombstonesResolve

\* What holds of active nodes, and of a tombstone when it holds of the node it was
\* merged into, holds of every known node.
LEMMA AlongMerges ==
    ASSUME TombstonesResolve, NEW Good, Active \subseteq Good,
           \A n \in Tombstoned : mergedInto[n] \in Good => n \in Good
    PROVE  Known \subseteq Good
<1> SUFFICES ASSUME Known \ Good # {}
             PROVE  FALSE
  OBVIOUS
<1>1. Known \ Good \in SUBSET Tombstoned
  BY DEF Known
<1>2. PICK n \in Known \ Good : mergedInto[n] \in Known \ (Known \ Good)
  BY <1>1 DEF TombstonesResolve, Known
<1>3. QED
  BY <1>1, <1>2

\* An active node leads to itself alone.
LEMMA ActiveLeads ==
    ASSUME NEW n \in Active, NEW a
    PROVE  LeadsTo(n, a) <=> a = n
<1>1. {n} \in SUBSET Ids /\ Follows({n})
  BY DEF Follows, Active, Tombstoned
<1>2. QED
  BY <1>1 DEF LeadsTo

\* A tombstone leads where the node it was merged into leads.
LEMMA TombstoneLeads ==
    ASSUME NEW n \in Tombstoned, NEW a
    PROVE  LeadsTo(n, a) <=> LeadsTo(mergedInto[n], a)
<1>1. ASSUME LeadsTo(mergedInto[n], a)
      PROVE  LeadsTo(n, a)
  BY <1>1 DEF LeadsTo, Follows
<1>2. ASSUME LeadsTo(n, a)
      PROVE  LeadsTo(mergedInto[n], a)
  <2>1. a \in Active /\ a # n
    BY <1>2 DEF LeadsTo, Active, Tombstoned
  <2>2. ASSUME NEW S \in SUBSET Ids, mergedInto[n] \in S, Follows(S)
        PROVE  a \in S
    <3>1. S \cup {n} \in SUBSET Ids /\ Follows(S \cup {n})
      BY <2>2 DEF Follows, Tombstoned
    <3>2. QED
      BY <1>2, <2>1, <3>1 DEF LeadsTo
  <2>3. QED
    BY <2>1, <2>2 DEF LeadsTo
<1>3. QED
  BY <1>1, <1>2

\* Every known node leads to exactly one node, and that is an active node of its
\* type.
LEMMA LeadsSomewhere ==
    ASSUME TombstonesResolve, NEW n \in Known
    PROVE  \E a \in Active : LeadsTo(n, a) /\ TypeOf(a) = TypeOf(n)
<1> DEFINE Good == {m \in Known : \E a \in Active : LeadsTo(m, a) /\ TypeOf(a) = TypeOf(m)}
<1>1. Active \subseteq Good
  BY ActiveLeads DEF Known
<1>2. \A m \in Tombstoned : mergedInto[m] \in Good => m \in Good
  BY TombstoneLeads, MergedIntoKnown DEF Known
<1>3. Known \subseteq Good
  <2> HIDE DEF Good
  <2>1. QED
    BY <1>1, <1>2, AlongMerges
<1>4. QED
  BY <1>3

\* It leads to no second node.
LEMMA LeadsOnce ==
    ASSUME TombstonesResolve, NEW n \in Known, NEW a, NEW b, LeadsTo(n, a), LeadsTo(n, b)
    PROVE  a = b
<1> DEFINE Good == {m \in Known : \A c, d \in Active : LeadsTo(m, c) /\ LeadsTo(m, d) => c = d}
<1>1. Active \subseteq Good
  BY ActiveLeads DEF Known
<1>2. \A m \in Tombstoned : mergedInto[m] \in Good => m \in Good
  BY TombstoneLeads DEF Known
<1>3. Known \subseteq Good
  <2> HIDE DEF Good
  <2>1. QED
    BY <1>1, <1>2, AlongMerges
<1>4. QED
  BY <1>3 DEF LeadsTo

\* Resolve is that node.
LEMMA ResolveIs ==
    ASSUME TypeOK, TombstonesResolve, NEW n \in Known, NEW a, LeadsTo(n, a)
    PROVE  Resolve(n) = a
<1>1. status[n] # "absent" /\ a \in Ids
  BY DEF Known, Active, Tombstoned, LeadsTo
<1>2. LeadsTo(n, CHOOSE b \in Ids : LeadsTo(n, b))
  BY <1>1
<1>3. QED
  BY <1>1, <1>2, LeadsOnce DEF Resolve

\* So every known node resolves to an active node of its type.
LEMMA ResolveLeads ==
    ASSUME TypeOK, TombstonesResolve, NEW n \in Known
    PROVE  /\ LeadsTo(n, Resolve(n))
           /\ Resolve(n) \in Active /\ TypeOf(Resolve(n)) = TypeOf(n)
<1>1. PICK a \in Active : LeadsTo(n, a) /\ TypeOf(a) = TypeOf(n)
  BY LeadsSomewhere
<1>2. QED
  BY <1>1, ResolveIs

\* The same two facts, of a state; and so of the state after a step.
Resolves == \A n \in Known : /\ \A a : LeadsTo(n, a) => Resolve(n) = a
                             /\ LeadsTo(n, Resolve(n))
                             /\ Resolve(n) \in Active /\ TypeOf(Resolve(n)) = TypeOf(n)

\* They hold whenever the inductive invariant does.
LEMMA InvResolves == IInv => Resolves
BY ResolveIs, ResolveLeads DEF IInv, Resolves

\* And after a step.
LEMMA InvResolvesNext == IInv' => Resolves'
BY InvResolves, PTL

-----------------------------------------------------------------------------
(***************************************************************************)
(* Each kind of step, seen through Resolve.                                *)
(***************************************************************************)

\* The id that speaks for each id: the refinement mapping.
Speaker == [n \in Ids |-> Resolve(n)]

\* What is not in the table, and nothing else, resolves to None.
LEMMA ResolveUnknown ==
    ASSUME IInv, NEW n \in Ids
    PROVE  n \notin Known <=> Resolve(n) = None
<1>1. n \notin Known => Resolve(n) = None
  BY DEF IInv, Known, Active, Tombstoned, Resolve, TypeOK
<1>2. n \in Known => Resolve(n) \in Ids
  BY InvResolves DEF Resolves, Active
<1>3. QED
  BY <1>1, <1>2, NoneAssumption

\* The same after a step.
LEMMA ResolveUnknownNext ==
    ASSUME IInv', NEW n \in Ids
    PROVE  n \notin Known' <=> Resolve(n)' = None
<1>1. n \notin Known' => Resolve(n)' = None
  BY DEF IInv, Known, Active, Tombstoned, Resolve, TypeOK
<1>2. n \in Known' => Resolve(n)' \in Ids
  BY InvResolvesNext DEF Resolves, Active
<1>3. QED
  BY <1>1, <1>2, NoneAssumption

\* Where merges stay as they were and no active node goes, resolving stays the same.
LEMMA KeepsResolving ==
    ASSUME IInv, IInv', Tombstoned' = Tombstoned, mergedInto' = mergedInto,
           Active \subseteq Active', NEW n \in Known
    PROVE  Resolve(n)' = Resolve(n)
<1>1. LeadsTo(n, Resolve(n)) /\ n \in Known'
  BY InvResolves DEF Resolves, Known
<1>2. PICK a : a = Resolve(n)
  OBVIOUS
<1>3. LeadsTo(n, a)
  BY <1>1, <1>2
<1>4. LeadsTo(n, a)'
  BY <1>3 DEF LeadsTo, Follows
<1>5. QED
  BY <1>1, <1>2, <1>4, InvResolvesNext DEF Resolves

\* A merge of l into w moves exactly what resolved to l, and moves it to w.
LEMMA MergeMovesResolving ==
    ASSUME IInv, IInv', NEW w \in Ids, NEW l \in Ids, MergeAllowed(w, l),
           MergeInplace(w, l), NEW n \in Known
    PROVE  Resolve(n)' = IF Resolve(n) = l THEN w ELSE Resolve(n)
<1>1. /\ w # l /\ w \in Active /\ l \in Active
      /\ Active' = Active \ {l} /\ Tombstoned' = Tombstoned \cup {l}
      /\ mergedInto' = [mergedInto EXCEPT ![l] = w]
  BY MergeNodes DEF IInv
<1>2. mergedInto'[l] = w /\ \A m \in Tombstoned : mergedInto'[m] = mergedInto[m]
  BY <1>1 DEF IInv, TypeOK, Active, Tombstoned
<1>3. \A S \in SUBSET Ids : Follows(S)' => Follows(S) /\ (l \in S => w \in S)
  BY <1>1, <1>2 DEF Follows
<1>4. n \in Known'
  BY <1>1 DEF Known
<1>5. PICK a : a = Resolve(n)
  OBVIOUS
<1>6. LeadsTo(n, a)
  BY <1>5, InvResolves DEF Resolves
<1>7. CASE a = l
  <2>1. LeadsTo(n, w)'
    BY <1>1, <1>3, <1>6, <1>7 DEF LeadsTo
  <2>2. QED
    BY <1>4, <1>5, <1>7, <2>1, InvResolvesNext DEF Resolves
<1>8. CASE a # l
  <2>1. LeadsTo(n, a)'
    BY <1>1, <1>3, <1>6, <1>8 DEF LeadsTo
  <2>2. QED
    BY <1>4, <1>5, <1>8, <2>1, InvResolvesNext DEF Resolves
<1>9. QED
  BY <1>7, <1>8

\* A save introduces the ids it creates.
LEMMA SaveIntroduces ==
    ASSUME IInv, IInv', NEW batch \in Batches, NEW source \in Sources, Save(batch, source)
    PROVE  Identity!Introduce
<1> DEFINE new == NewIds(batch)
<1>1. /\ Active' = Active \cup new /\ Tombstoned' = Tombstoned /\ mergedInto' = mergedInto
  BY SaveNodes DEF IInv
<1>2. new \subseteq Ids \ Known
  BY NewIdsAbsent DEF Save, Known, Active, Tombstoned
<1>3. ASSUME NEW n \in Ids
      PROVE  Resolve(n)' = IF n \in new THEN n ELSE Resolve(n)
  <2>1. CASE n \in Known
    BY <1>1, <1>2, <2>1, KeepsResolving
  <2>2. CASE n \in new
    <3>1. n \in Known' /\ LeadsTo(n, n)'
      BY <1>1, <2>2 DEF Known, LeadsTo
    <3>2. QED
      BY <2>2, <3>1, InvResolvesNext DEF Resolves
  <2>3. CASE n \notin Known /\ n \notin new
    BY <1>1, <2>3, ResolveUnknown, ResolveUnknownNext DEF Known
  <2>4. QED
    BY <2>1, <2>2, <2>3
<1>4. new \in SUBSET {n \in Ids : Speaker[n] = None}
  BY <1>2, ResolveUnknown DEF Speaker
<1>5. Speaker' = [n \in Ids |-> IF n \in new THEN n ELSE Speaker[n]]
  BY <1>3 DEF Speaker
<1> HIDE DEF new
<1>6. QED
  BY <1>4, <1>5 DEF Identity!Introduce, Speaker

\* A merge unites two entities of one type.
LEMMA MergeUnites ==
    ASSUME IInv, IInv', NEW w \in Ids, NEW l \in Ids, MergeAllowed(w, l), MergeInplace(w, l)
    PROVE  Identity!Unite
<1>1. w # l /\ TypeOf(w) = TypeOf(l) /\ w \in Active /\ l \in Active
  BY MergeNodes DEF IInv
<1>2. Resolve(w) = w /\ Resolve(l) = l
  BY <1>1, ActiveLeads, InvResolves DEF Resolves, Known
<1>3. w \in {Speaker[n] : n \in Ids} \ {None} /\ l \in {Speaker[n] : n \in Ids} \ {None}
  BY <1>2, NoneAssumption DEF Speaker
<1>4. ASSUME NEW n \in Ids
      PROVE  Resolve(n)' = IF Resolve(n) = l THEN w ELSE Resolve(n)
  <2>1. CASE n \in Known
    BY <2>1, MergeMovesResolving
  <2>2. CASE n \notin Known
    <3>1. n \notin Known'
      BY <1>1, <2>2, MergeNodes DEF Known, IInv
    <3>2. QED
      BY <2>2, <3>1, ResolveUnknown, ResolveUnknownNext, NoneAssumption
  <2>3. QED
    BY <2>1, <2>2
<1>5. Speaker' = [n \in Ids |-> IF Speaker[n] = l THEN w ELSE Speaker[n]]
  BY <1>4 DEF Speaker
<1>6. QED
  BY <1>1, <1>3, <1>5 DEF Identity!Unite, Identity!Speakers, Speaker

\* Every other step is a stutter.
LEMMA OthersStutter ==
    ASSUME IInv, IInv', Active' = Active, Tombstoned' = Tombstoned, mergedInto' = mergedInto
    PROVE  Speaker' = Speaker
<1>1. ASSUME NEW n \in Ids
      PROVE  Resolve(n)' = Resolve(n)
  <2>1. CASE n \in Known
    BY <2>1, KeepsResolving
  <2>2. CASE n \notin Known
    BY <2>2, ResolveUnknown, ResolveUnknownNext DEF Known
  <2>3. QED
    BY <2>1, <2>2
<1>2. QED
  BY <1>1 DEF Speaker

\* Whatever saves, merges, reviews and crashes do, the graph implements identity
\* classes: ids resolve for ever, classes only grow, and only within a type.
THEOREM GraphImplementsIdentity == Spec => ImplementsIdentity
<1>1. Init => Identity!Init
  BY DEF Init, Identity!Init, Resolve
<1>2. IInv /\ IInv' /\ [Next]_vars => [Identity!Next]_Speaker
  <2> SUFFICES ASSUME IInv, IInv', [Next]_vars
               PROVE  Identity!Introduce \/ Identity!Unite \/ Speaker' = Speaker
    BY DEF Identity!Next
  <2>1. ASSUME NEW batch \in Batches, NEW source \in Sources, Save(batch, source)
        PROVE  Identity!Introduce
    BY <2>1, SaveIntroduces
  <2>2. ASSUME NEW p \in Procs, NEW w \in Ids, NEW l \in Ids, NEW r \in EdgeIds \cup {None},
               MergeStep(p, w, l, r)
        PROVE  Identity!Unite
    BY <2>2, MergeUnites DEF MergeStep
  <2>3. ASSUME NEW p \in Procs, NEW e \in EdgeIds, RejectReview(p, e)
        PROVE  Speaker' = Speaker
    BY <2>3, RejectEdge, OthersStutter DEF IInv
  <2>4. CASE QuietStep
    BY <2>4, OthersStutter DEF QuietStep, graphVars, Active, Tombstoned
  <2>5. QED
    BY <2>1, <2>2, <2>3, <2>4, StepKinds DEF IInv
<1>3. QED
  BY <1>1, <1>2, Invariance, PTL DEF Spec, ImplementsIdentity, Identity!Spec, Speaker
=============================================================================
