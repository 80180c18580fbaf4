------------------------------ MODULE KGGraph ------------------------------
(***************************************************************************)
(* The memory graph and the gate that is its only writer: the saves that   *)
(* put extracted names into it (Gate.normalize), the merges and reviews    *)
(* that unite entities (Gate.merge, review_merge, reject_review), and the  *)
(* command-line and MCP callers around them, which read before the         *)
(* transaction and write the audit log after it.                           *)
(*                                                                         *)
(* Every gate operation runs in one BEGIN IMMEDIATE transaction, so it is  *)
(* one action here; an operation whose validation raises rolls back and    *)
(* changes nothing, so it is a disabled action.                            *)
(*                                                                         *)
(* A node id is <<type, slug, n>>: n = 1 is the content-derived id, and    *)
(* n > 1 its "-n" suffix.  An edge id is <<source, semantic type, target>>.*)
(* Similarity scores are abstracted: what dedup answers for a name is any  *)
(* of the answers the thresholds allow.  Summaries, aliases, embeddings    *)
(* and time stamps are left out; one attribute stands for each of them.    *)
(* A definition marked (fault) is a mistake the code does not make; the    *)
(* checks put it in the place of the definition below it, to show which    *)
(* property would notice.                                                  *)
(***************************************************************************)
EXTENDS Integers, FiniteSets

CONSTANTS
    Types,          \* node types (ontology.py, ALLOWED_NODE_TYPES)
    Slugs,          \* slugified names
    Mentions,       \* what extraction may report: [type, name, slug, value]
    Sems,           \* semantic edge types, "same_as" among them
    ExtractedSems,  \* those that extraction reports
    Sources,        \* lineage entries: one document chunk each
    Values,         \* values of the one attribute modelled
    GrayZone,       \* whether config.toml has dedup_flag below dedup_merge
    None,           \* Python's None
    Cli,            \* command-line sessions running merge and review commands
    Mcp,            \* MCP sessions running merge and review tools
    MaxSuffix,      \* bound: ids per type and slug
    MaxNodes,       \* bound: nodes ever created
    MaxBatch,       \* bound: names per save
    MaxLinks,       \* bound: extracted edges per save
    MaxEdges,       \* bound: edge rows in the table when a save commits
    MaxFaults       \* bound: crashes and log-write errors

Procs == Cli \cup Mcp
Ids == Types \X Slugs \X (1..MaxSuffix)
EdgeIds == Ids \X Sems \X Ids
TypeOf(n) == n[1]

Decision == [action : {"merge", "review_confirm", "review_reject"},
             via    : Procs,
             winner : Ids \cup {None},
             loser  : Ids \cup {None},
             review : EdgeIds \cup {None}]
Request == [review : EdgeIds, winner : Ids]
Audit == [decision : Decision, edgesBefore : SUBSET EdgeIds]

ASSUME ConstantsAssumption ==
    /\ "same_as" \in Sems
    /\ ExtractedSems \subseteq Sems
    /\ \A m \in Mentions : /\ m.type \in Types
                           /\ m.slug \in Slugs
                           /\ m.value \in Values \cup {None}
    /\ GrayZone \in BOOLEAN
    /\ Cli \cap Mcp = {} /\ IsFiniteSet(Cli)
    /\ MaxSuffix \in Nat /\ MaxNodes \in Nat
    /\ MaxBatch \in Nat /\ MaxLinks \in Nat /\ MaxEdges \in Nat /\ MaxFaults \in Nat

ASSUME NoneAssumption ==
    /\ None \notin Ids /\ None \notin EdgeIds /\ None \notin Values
    /\ None \notin Request /\ None \notin Audit

VARIABLES
    status,       \* nodes.status, "absent" when the table has no such row
    mergedInto,   \* Node.merged_into
    lineage,      \* Node.sources
    attr,         \* Node.attributes[k]
    conflicts,    \* Node.attribute_conflicts, as <<winner's, loser's>> values
    edge,         \* edges.status, "absent" when the table has no such row
    edgeLineage,  \* Edge.sources
    request,      \* what a confirming session read before its transaction
    audit,        \* the AuditRecord a session got from the gate
    log,          \* the decisions whose record is in wiki/log.md
    committed,    \* history: every decision the gate committed
    faults        \* crashes and log-write errors so far

graphVars == <<status, mergedInto, lineage, attr, conflicts, edge, edgeLineage>>
vars == <<status, mergedInto, lineage, attr, conflicts, edge, edgeLineage,
          request, audit, log, committed, faults>>

Active == {n \in Ids : status[n] = "active"}
Tombstoned == {n \in Ids : status[n] = "tombstoned"}
Edges == {e \in EdgeIds : edge[e] # "absent"}

EdgeStatuses == {"absent", "active", "pending", "rejected"}

TypeOK ==
    /\ status \in [Ids -> {"absent", "active", "tombstoned"}]
    /\ mergedInto \in [Ids -> Ids \cup {None}]
    /\ lineage \in [Ids -> SUBSET Sources]
    /\ attr \in [Ids -> Values \cup {None}]
    /\ conflicts \in [Ids -> SUBSET (Values \X Values)]
    /\ edge \in [EdgeIds -> EdgeStatuses]
    /\ edgeLineage \in [EdgeIds -> SUBSET Sources]
    /\ request \in [Procs -> Request \cup {None}]
    /\ audit \in [Procs -> Audit \cup {None}]
    /\ log \subseteq Decision
    /\ committed \subseteq Decision
    /\ faults \in 0..MaxFaults

Init ==
    /\ status = [n \in Ids |-> "absent"]
    /\ mergedInto = [n \in Ids |-> None]
    /\ lineage = [n \in Ids |-> {}]
    /\ attr = [n \in Ids |-> None]
    /\ conflicts = [n \in Ids |-> {}]
    /\ edge = [e \in EdgeIds |-> "absent"]
    /\ edgeLineage = [e \in EdgeIds |-> {}]
    /\ request = [p \in Procs |-> None]
    /\ audit = [p \in Procs |-> None]
    /\ log = {}
    /\ committed = {}
    /\ faults = 0

-----------------------------------------------------------------------------
(***************************************************************************)
(* Saving: Gate.normalize.                                                 *)
(***************************************************************************)

\* What Deduper.dedup and the two thresholds can answer for a name of type t:
\* an active node of that type above dedup_merge or above dedup_flag, or none.
MatchRoutes == IF GrayZone THEN {"MERGED", "FLAGGED"} ELSE {"MERGED"}
Verdicts(t) ==
    {[route |-> "NEW", match |-> None]}
    \cup {[route |-> r, match |-> n] : r \in MatchRoutes,
                                       n \in {m \in Active : TypeOf(m) = t}}

\* What a save brings, and what dedup answers for each part of it: a function from
\* mentions to verdicts. Of several entries with one type and name only the first
\* is kept, so no two mentions of a batch agree on both.
Batches ==
    UNION {{b \in [ms -> UNION {Verdicts(t) : t \in Types}] :
                \A m \in ms : b[m] \in Verdicts(m.type)} :
           ms \in {ms \in SUBSET Mentions :
               /\ Cardinality(ms) \in 1..MaxBatch
               /\ \A m1, m2 \in ms :
                     m1.type = m2.type /\ m1.name = m2.name => m1 = m2}}

Created(batch) == {m \in DOMAIN batch : batch[m].route # "MERGED"}
Absorbed(batch, n) ==
    {m \in DOMAIN batch : batch[m].route = "MERGED" /\ batch[m].match = n}

\* (fault) A tombstone's id counts as free.
FirstFreeOfActive(t, slug, n) ==
    /\ status[<<t, slug, n>>] # "active"
    /\ \A m \in 1..(n - 1) : status[<<t, slug, m>>] = "active"

\* allocate_node_id: the base id when free, else the first free suffix.
FirstFree(t, slug, n) ==
    /\ status[<<t, slug, n>>] = "absent"
    /\ \A m \in 1..(n - 1) : status[<<t, slug, m>>] # "absent"
AllocateNodeId(t, slug) ==
    <<t, slug, CHOOSE n \in 1..MaxSuffix : FirstFree(t, slug, n)>>

\* settled_id: the node that a mention ends up as.
SettledId(batch, m) ==
    IF batch[m].route = "MERGED" THEN batch[m].match ELSE AllocateNodeId(m.type, m.slug)

NewIds(batch) == {SettledId(batch, m) : m \in Created(batch)}

\* The gray zone: a pending same_as edge from the new node to its best match.
FlaggedEdges(batch) ==
    {<<SettledId(batch, m), "same_as", batch[m].match>> :
        m \in {c \in Created(batch) : batch[c].route = "FLAGGED"}}

\* name_to_ids: an extracted edge is dropped unless each of its names settled
\* exactly once in this batch.
Unambiguous(batch) ==
    {m \in DOMAIN batch : \A o \in DOMAIN batch : o.name = m.name => o = m}
Links(batch) ==
    {<<SettledId(batch, ms[1]), sem, SettledId(batch, ms[2])>> :
        ms \in Unambiguous(batch) \X Unambiguous(batch), sem \in ExtractedSems}

\* The extracted edges of a save; MaxLinks bounds how many.
LinkSets(batch) ==
    {{}} \cup {{f[i] : i \in 1..MaxLinks} : f \in [1..MaxLinks -> Links(batch)]}

\* _merge_candidate fills an attribute the winner lacks, with the value of the
\* first mention that brings one: any of them, as batches have no order here.
FilledValues(batch, n) ==
    LET offers == {m.value : m \in Absorbed(batch, n)} \ {None}
    IN  IF attr[n] # None \/ offers = {} THEN {attr[n]} ELSE offers

NewValues(batch, n) == {m.value : m \in {c \in Created(batch) : SettledId(batch, c) = n}}

\* Every new node gets an id, and one of its own: a second row of the same id
\* fails the unique key of nodes_vec, which rolls the whole save back.
Allocatable(batch) ==
    /\ \A m \in Created(batch) : \E n \in 1..MaxSuffix : FirstFree(m.type, m.slug, n)
    /\ \A m1, m2 \in Created(batch) :
          SettledId(batch, m1) = SettledId(batch, m2) => m1 = m2

Save(batch, source) ==
    /\ Cardinality(Active \cup Tombstoned) + Cardinality(Created(batch)) <= MaxNodes
    /\ Allocatable(batch)
    /\ LET new == NewIds(batch)
           flagged == FlaggedEdges(batch)
           touched == new \cup {n \in Active : Absorbed(batch, n) # {}}
       IN  /\ status' = [n \in Ids |-> IF n \in new THEN "active" ELSE status[n]]
           /\ lineage' = [n \in Ids |-> IF n \in touched
                                        THEN lineage[n] \cup {source} ELSE lineage[n]]
           /\ attr' \in {a \in [Ids -> Values \cup {None}] : \A n \in Ids :
                            a[n] \in IF n \in new THEN NewValues(batch, n)
                                    ELSE FilledValues(batch, n)}
           /\ \E links \in LinkSets(batch) :
                /\ Cardinality(Edges \cup flagged \cup links) <= MaxEdges
                /\ edge' = [e \in EdgeIds |-> IF e \in links THEN "active"
                                              ELSE IF e \in flagged THEN "pending"
                                              ELSE edge[e]]
                /\ edgeLineage' = [e \in EdgeIds |-> IF e \in links THEN {source}
                                                     ELSE IF e \in flagged THEN {}
                                                     ELSE edgeLineage[e]]
    /\ UNCHANGED <<mergedInto, conflicts, request, audit, log, committed, faults>>

-----------------------------------------------------------------------------
(***************************************************************************)
(* Uniting two entities: Gate.merge and Gate.review_merge.                 *)
(***************************************************************************)

Touches(e, n) == e[1] = n \/ e[3] = n
Redirect(n, w, l) == IF n = l THEN w ELSE n
Rebuilt(e, w, l) == <<Redirect(e[1], w, l), e[2], Redirect(e[3], w, l)>>
IsLoop(e) == e[1] = e[3]

\* (fault) Only the loser's status is checked.
MergeAllowedIntoAny(w, l) ==
    /\ w # l
    /\ status[w] # "absent" /\ status[l] = "active"
    /\ TypeOf(w) = TypeOf(l)

\* The validation half of _capture_merge_preimages.
MergeAllowed(w, l) ==
    /\ w # l
    /\ status[w] = "active" /\ status[l] = "active"
    /\ TypeOf(w) = TypeOf(l)

\* (fault) The status of the edge is not checked.
ReviewableOnce(e) == e[2] = "same_as" /\ edge[e] # "absent"

\* _load_review_edge: only a pending same_as edge can be decided.
Reviewable(e) == e[2] = "same_as" /\ edge[e] = "pending"

\* (fault) Only edges that leave the loser are captured.
CapturedOutgoing(w, l) ==
    {e \in Edges : e[1] = l} \cup ({Rebuilt(e, w, l) : e \in {d \in Edges : d[1] = l}} \cap Edges)

\* edges_before: the loser's edges and those they collide with.
Captured(w, l) ==
    LET losing == {e \in Edges : Touches(e, l)}
    IN  losing \cup ({Rebuilt(e, w, l) : e \in losing} \cap Edges)

\* The loser's edge that is rebuilt as the winner's edge e.
LoserEdge(e, w, l) == Rebuilt(e, l, w)

\* (fault) Edges that lead to the loser are not rebuilt.
InheritsOutgoing(e, w, l) ==
    /\ e[1] = w /\ ~Touches(e, l) /\ ~IsLoop(e)
    /\ LoserEdge(e, w, l) \in Edges

\* Whether the row e is rebuilt, or united, from an edge of the loser.
Inherits(e, w, l) ==
    /\ Touches(e, w) /\ ~Touches(e, l) /\ ~IsLoop(e)
    /\ LoserEdge(e, w, l) \in Edges

\* (fault) Rows that lead to the loser stay.
MergedEdgeLeavingIncoming(e, w, l) ==
    IF e[1] = l THEN "absent"
    ELSE IF Inherits(e, w, l) /\ edge[e] = "absent" THEN edge[LoserEdge(e, w, l)]
    ELSE edge[e]

\* (fault) An edge between winner and loser becomes a loop of the winner.
MergedEdgeWithLoops(e, w, l) ==
    IF Touches(e, l) THEN "absent"
    ELSE IF e = <<w, "same_as", w>> THEN edge[<<l, "same_as", w>>]
    ELSE IF Inherits(e, w, l) /\ edge[e] = "absent" THEN edge[LoserEdge(e, w, l)]
    ELSE edge[e]

\* (fault) Of two rows that collide the loser's status stays.
MergedEdgeOfLoser(e, w, l) ==
    IF Touches(e, l) THEN "absent"
    ELSE IF Inherits(e, w, l) THEN edge[LoserEdge(e, w, l)]
    ELSE edge[e]

\* The row e after the loser's edges were re-pointed: rows of the loser go, and
\* of two rows that collide the winner's keeps its status.
MergedEdge(e, w, l) ==
    IF Touches(e, l) THEN "absent"
    ELSE IF Inherits(e, w, l) /\ edge[e] = "absent" THEN edge[LoserEdge(e, w, l)]
    ELSE edge[e]

MergedEdgeLineage(e, w, l) ==
    IF Touches(e, l) THEN {}
    ELSE IF Inherits(e, w, l) THEN edgeLineage[e] \cup edgeLineage[LoserEdge(e, w, l)]
    ELSE edgeLineage[e]

\* (fault) The loser's sources are not united with the winner's.
MergedLineageOfWinner(w, l) == lineage[w]

MergedLineage(w, l) == lineage[w] \cup lineage[l]

MergedAttr(w, l) == IF attr[w] = None THEN attr[l] ELSE attr[w]

\* (fault) The winner's value replaces the loser's without a record.
MergedConflictsUnrecorded(w, l) == conflicts[w]
MergedConflicts(w, l) ==
    IF attr[l] # None /\ attr[w] # None /\ attr[l] # attr[w]
    THEN conflicts[w] \cup {<<attr[w], attr[l]>>}
    ELSE conflicts[w]

MergeInplace(w, l) ==
    /\ status' = [status EXCEPT ![l] = "tombstoned"]
    /\ mergedInto' = [mergedInto EXCEPT ![l] = w]
    /\ lineage' = [lineage EXCEPT ![w] = MergedLineage(w, l)]
    /\ attr' = [attr EXCEPT ![w] = MergedAttr(w, l)]
    /\ conflicts' = [conflicts EXCEPT ![w] = MergedConflicts(w, l)]
    /\ edge' = [e \in EdgeIds |-> MergedEdge(e, w, l)]
    /\ edgeLineage' = [e \in EdgeIds |-> MergedEdgeLineage(e, w, l)]

-----------------------------------------------------------------------------
(***************************************************************************)
(* The sessions: merge_cli, review_confirm_cli, review_reject_cli and the  *)
(* MCP handlers merge_nodes, review_confirm and review_reject.             *)
(***************************************************************************)

Idle(p) == request[p] = None /\ audit[p] = None

\* A session holds the record of a committed decision until it has logged it.
Decide(p, decision, before) ==
    /\ audit' = [audit EXCEPT ![p] = [decision |-> decision, edgesBefore |-> before]]
    /\ committed' = committed \cup {decision}
    /\ UNCHANGED <<log, faults>>

Merge(p, w, l) ==
    /\ Idle(p)
    /\ MergeAllowed(w, l)
    /\ MergeInplace(w, l)
    /\ Decide(p, [action |-> "merge", via |-> p, winner |-> w, loser |-> l,
                  review |-> None], Captured(w, l))
    /\ UNCHANGED request

\* Before its transaction, confirm reads the edge row to find the loser. (An edge
\* of another type may be named too; it is never pending and always refused.)
ReadReview(p, e, w) ==
    /\ Idle(p)
    /\ e \in Edges /\ e[2] = "same_as" /\ Touches(e, w)
    /\ request' = [request EXCEPT ![p] = [review |-> e, winner |-> w]]
    /\ UNCHANGED <<graphVars, audit, log, committed, faults>>

OtherEnd(e, w) == IF w = e[1] THEN e[3] ELSE e[1]

ConfirmReview(p) ==
    /\ request[p] # None
    /\ LET e == request[p].review
           w == request[p].winner
           l == OtherEnd(e, w)
       IN  /\ MergeAllowed(w, l)
           /\ Reviewable(e)
           /\ MergeInplace(w, l)
           /\ Decide(p, [action |-> "review_confirm", via |-> p, winner |-> w,
                         loser |-> l, review |-> e], Captured(w, l) \cup {e})
    /\ request' = [request EXCEPT ![p] = None]

\* The gate refuses what is no longer pending or active; the session ends.
RefuseConfirm(p) ==
    /\ request[p] # None
    /\ LET e == request[p].review
           w == request[p].winner
       IN  ~(MergeAllowed(w, OtherEnd(e, w)) /\ Reviewable(e))
    /\ request' = [request EXCEPT ![p] = None]
    /\ UNCHANGED <<graphVars, audit, log, committed, faults>>

RejectReview(p, e) ==
    /\ Idle(p)
    /\ Reviewable(e)
    /\ edge' = [edge EXCEPT ![e] = "rejected"]
    /\ Decide(p, [action |-> "review_reject", via |-> p, winner |-> None,
                  loser |-> None, review |-> e], {e})
    /\ UNCHANGED <<status, mergedInto, lineage, attr, conflicts, edgeLineage,
                   request>>

\* (fault) The log is opened for writing, not for appending.
AppendAuditTruncating(p) ==
    /\ p \in Cli
    /\ audit[p] # None
    /\ log' = {audit[p].decision}
    /\ audit' = [audit EXCEPT ![p] = None]
    /\ UNCHANGED <<graphVars, request, committed, faults>>

\* _append_audit, after the commit: the command line logs the whole record.
AppendAudit(p) ==
    /\ p \in Cli
    /\ audit[p] # None
    /\ log' = log \cup {audit[p].decision}
    /\ audit' = [audit EXCEPT ![p] = None]
    /\ UNCHANGED <<graphVars, request, committed, faults>>

\* An OSError of the append is a warning: the database has committed.
AppendFails(p) ==
    /\ p \in Cli
    /\ audit[p] # None
    /\ faults < MaxFaults
    /\ faults' = faults + 1
    /\ audit' = [audit EXCEPT ![p] = None]
    /\ UNCHANGED <<graphVars, request, log, committed>>

\* An MCP handler answers with an envelope; a reason line it may append to the
\* log carries no pre-image, and is left out.
AnswerMcp(p) ==
    /\ p \in Mcp
    /\ audit[p] # None
    /\ audit' = [audit EXCEPT ![p] = None]
    /\ UNCHANGED <<graphVars, request, log, committed, faults>>

\* A session dies between two of its steps. SQLite rolls an open transaction back.
Crash(p) ==
    /\ ~Idle(p)
    /\ faults < MaxFaults
    /\ faults' = faults + 1
    /\ request' = [request EXCEPT ![p] = None]
    /\ audit' = [audit EXCEPT ![p] = None]
    /\ UNCHANGED <<graphVars, log, committed>>

-----------------------------------------------------------------------------

SaveStep == \E batch \in Batches, source \in Sources : Save(batch, source)

SessionStep(p) ==
    \/ \E w, l \in Ids : Merge(p, w, l)
    \/ \E e \in EdgeIds : \E w \in {e[1], e[3]} : ReadReview(p, e, w)
    \/ ConfirmReview(p)
    \/ RefuseConfirm(p)
    \/ \E e \in EdgeIds : RejectReview(p, e)
    \/ AppendAudit(p)
    \/ AppendFails(p)
    \/ AnswerMcp(p)
    \/ Crash(p)

Next == SaveStep \/ \E p \in Procs : SessionStep(p)

Spec == Init /\ [][Next]_vars

-----------------------------------------------------------------------------
(***************************************************************************)
(* What the graph promises.                                                *)
(***************************************************************************)

\* No edge row, of any status, is left on a tombstone or on a node that was
\* never stored, however saves, merges and reviews interleave: every merge
\* re-points all of the loser's edges and every save settles on active nodes.
EdgesAnchored == \A e \in Edges : e[1] \in Active /\ e[3] \in Active

\* Following merged_into from a tombstone stays within its type, never goes
\* round in a circle and so ends at an active node: no set of tombstones points
\* only into itself.
TombstonesResolve ==
    /\ \A n \in Tombstoned : TypeOf(mergedInto[n]) = TypeOf(n)
    /\ \A S \in SUBSET Tombstoned :
          S # {} => \E n \in S : mergedInto[n] \in (Active \cup Tombstoned) \ S

\* Whatever was merged since it was opened, a pending review can still be
\* confirmed: it joins two distinct active nodes of one type.
PendingReviewsDecidable ==
    \A e \in Edges : edge[e] = "pending" =>
        e[2] = "same_as" /\ MergeAllowed(e[1], e[3])

\* Two sessions that read the same pending review never both decide it, and no
\* node is merged away twice.
DecidedOnce ==
    \A d1, d2 \in committed :
        (d1.review = d2.review /\ d1.review # None)
            \/ (d1.loser = d2.loser /\ d1.loser # None) => d1 = d2

\* wiki/log.md never tells of a decision the database lacks, and a decision made
\* at the command line is missing from it only while its session has yet to
\* append it, or for one crash or failed write each.
AuditTrail ==
    /\ log \subseteq committed
    /\ Cardinality({d \in committed \ log : d.via \in Cli})
          <= faults + Cardinality({p \in Cli : audit[p] # None})

\* The part of a node's history that a step must not lose: an active node keeps
\* its sources or hands them to the node it is merged into, and the record of a
\* tombstone is final.
KeepsLineage(n) ==
    \/ status[n] = "absent"
    \/ /\ n \in Active /\ status'[n] = "active"
       /\ lineage[n] \subseteq lineage'[n]
    \/ /\ n \in Active /\ status'[n] = "tombstoned"
       /\ lineage[n] \subseteq lineage'[mergedInto'[n]]
    \/ /\ n \in Tombstoned /\ status'[n] = "tombstoned"
       /\ mergedInto'[n] = mergedInto[n] /\ lineage'[n] = lineage[n]
LineageKept == [][\A n \in Ids : KeepsLineage(n)]_vars

MergedNow == {n \in Active : status'[n] = "tombstoned"}

\* The edge e survives the merge of l into w.
KeepsEdge(e, w, l) ==
    LET r == Rebuilt(e, w, l)
    IN  IF Touches(e, l)
        THEN IsLoop(r) \/ /\ edge'[r] # "absent"
                          /\ edgeLineage[e] \subseteq edgeLineage'[r]
        ELSE /\ edge'[e] = edge[e]
             /\ edgeLineage[e] \subseteq edgeLineage'[e]

\* A merge loses no edge and no edge's sources: each edge of the loser is found on
\* the winner afterwards, united with the edge it collides with, unless it would
\* join the winner to itself; and no other edge changes.
MergeKeepsEdges ==
    [][\A l \in MergedNow : \A e \in Edges : KeepsEdge(e, mergedInto'[l], l)]_vars

\* Where the two nodes of a merge disagree on an attribute, the winner remembers
\* both values: as its value, or in a conflict left for somebody to judge.
MergeRecordsConflict ==
    [][\A l \in MergedNow : \A v \in {attr[l], attr[mergedInto'[l]]} \ {None} :
          LET w == mergedInto'[l]
          IN  attr'[w] = v \/ \E c \in conflicts'[w] : v \in {c[1], c[2]}]_vars

\* The pending review e is still there, was decided, is overruled by a document that
\* reports the pair as same_as, or has been moved or taken away by a merge.
KeepsReview(e) ==
    \/ edge'[e] = "pending"
    \/ \E d \in committed' \ committed : d.review = e
    \/ /\ "same_as" \in ExtractedSems /\ committed' = committed
       /\ edge'[e] = "active" /\ \E s \in Sources : edgeLineage'[e] = {s}
    \/ \E l \in MergedNow :
          LET r == Rebuilt(e, mergedInto'[l], l)
          IN  /\ Touches(e, l)
              /\ \/ IsLoop(r)
                 \/ edge[r] = "absent" /\ edge'[r] = "pending"
                 \/ edge[r] # "absent" /\ edge'[r] = edge[r]

\* A pending review leaves the review list only because somebody decided it,
\* because a document reports the pair as same_as, which makes the edge active with
\* that document as its source, or because one of its nodes was merged away; and
\* then it moves to the winner, unless that pair is the merged one or the winner had
\* that edge already.
ReviewsOnlyDecided ==
    [][\A e \in Edges : edge[e] = "pending" => KeepsReview(e)]_vars

\* The record a decision returns holds every edge row the decision changed or
\* deleted as it was before: with the two nodes it is enough to tell what the
\* merge, the one step the program cannot undo, destroyed.
AuditComplete ==
    [][\A p \in Procs : (audit[p] = None /\ audit'[p] # None) =>
          {e \in Edges : edge'[e] # edge[e] \/ edgeLineage'[e] # edgeLineage[e]}
              \subseteq audit'[p].edgesBefore]_vars

\* The active node a is where merged_into leads to from n: it is in every set that
\* n is in and that merged_into does not leave.
Follows(S) == \A n \in S : n \in Tombstoned => mergedInto[n] \in S
LeadsTo(n, a) ==
    /\ a \in Active
    /\ \A S \in SUBSET Ids : n \in S /\ Follows(S) => a \in S
Resolve(n) == IF status[n] = "absent" THEN None ELSE CHOOSE a \in Ids : LeadsTo(n, a)

\* The graph implements identity classes: whatever a save, a merge, a review or a
\* crash does, an id once handed out resolves to one active node for ever, two ids
\* that were one entity stay one, and only a merge unites two of the same type.
Identity == INSTANCE IdentityClasses WITH
    KindOf <- TypeOf, Unknown <- None, speaker <- [n \in Ids |-> Resolve(n)]
ImplementsIdentity == Identity!Spec

-----------------------------------------------------------------------------
(***************************************************************************)
(* Why the promises are kept: together with the state of the decisions     *)
(* made so far, each step preserves them.                                  *)
(***************************************************************************)

\* A node merged away is a tombstone. A review once decided is never pending
\* again: its edge row has another status, or went with one of its nodes.
Settled(d) ==
    /\ d.loser # None => d.loser \in Tombstoned
    /\ d.review # None =>
          \/ edge[d.review] \in {"active", "rejected"}
          \/ d.review[1] \in Tombstoned \/ d.review[3] \in Tombstoned
DecisionsSettled == \A d \in committed : Settled(d)

\* What a session holds is a decision of its own, committed and not yet logged;
\* and it holds either that or what it read before its transaction.
RecordsOpen ==
    \A p \in Procs : audit[p] # None =>
        /\ audit[p].decision \in committed \ log
        /\ audit[p].decision.via = p
        /\ request[p] = None

IInv == /\ TypeOK
        /\ EdgesAnchored
        /\ TombstonesResolve
        /\ PendingReviewsDecidable
        /\ DecisionsSettled
        /\ DecidedOnce
        /\ IsFiniteSet(committed)
        /\ RecordsOpen
        /\ AuditTrail

-----------------------------------------------------------------------------
(***************************************************************************)
(* What the documents say of the graph and the code does not do.           *)
(***************************************************************************)

\* docs/ops/runbook.md: the pre-images of a merge are logged to wiki/log.md. Here:
\* every merge whose session is done with it is in the log.
MergesLogged ==
    \A d \in committed : d.action # "review_reject" =>
        d \in log \/ \E p \in Procs : audit[p] # None /\ audit[p].decision = d
=============================================================================
