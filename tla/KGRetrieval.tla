------------------------------ MODULE KGRetrieval ------------------------------
(***************************************************************************)
(* One command that retrieves: `kg expand` and expand_memory, pack_context, *)
(* and `kg query`, which searches by text and by vectors, expands what it   *)
(* found, fuses the three rankings, limits them per source and packs the    *)
(* subgraph into a budget of tokens.                                        *)
(*                                                                         *)
(* Scores are floats of which only the order matters.  How well a text or   *)
(* a vector matches, and how recent a node is, may be anything, so the      *)
(* rankings of the searches, the fused ranking and the scores of the pack   *)
(* are any that the code could compute.  The text of a block is its number  *)
(* of tokens.                                                               *)
(***************************************************************************)
EXTENDS KGTraverse

CONSTANTS
  Asks,           \* bound: what expand_memory and `kg expand` are asked
  Packs,          \* bound: what pack_context is asked, [expansion, tokens]
  Queries,        \* bound: the policies and options of `kg query`, [hops, cap, tokens]
  TraverseBudget, \* config.query.traverse_budget
  PackBudget,     \* config.query.pack_budget_tokens
  DiversityCap,   \* config.query.diversity_cap
  SeedWindow,     \* how many hits of a ranking become seeds
  MaxHits,        \* bound on the hits of a search
  Docs, Doc,      \* documents; the first source of each node
  Tokens,         \* the tokens of each node's block
  Header,         \* the tokens of the header
  Scores          \* bound: scores of the pack

Policies == [hops : Nat, cap : Nat, tokens : Int]
NoQuery == [hops |-> 0, cap |-> 0, tokens |-> 0]

ASSUMPTION RetrievalConstants ==
  /\ Asks \subseteq Expansions
  /\ Packs \subseteq [expansion : Expansions, tokens : Nat]
  /\ Queries \subseteq Policies
  /\ TraverseBudget \in Int /\ PackBudget \in Nat /\ DiversityCap \in Nat
  /\ SeedWindow \in Nat /\ MaxHits \in Nat /\ Header \in Nat
  /\ Doc \in [Ids -> Docs] /\ Tokens \in [Ids -> Nat] /\ Scores \subseteq Int

VARIABLES
  kind,      \* the command that runs
  query,     \* the policy of `kg query`
  lexical,   \* bm25_ids
  semantic,  \* vec_ids
  ranked,    \* the fused ranking
  kept,      \* the positions of it that the limit per source leaves
  limited,   \* the position that diversify_by_source looks at next
  counted,   \* the active nodes that adaptive_budget counted
  budget,    \* budget_tokens of the pack
  score,     \* the score of each node in the pack
  rest,      \* the nodes that are still to be packed
  packed,    \* the blocks, in their order
  spent,     \* the tokens of the header and the blocks
  quiet      \* history: no other process wrote since the command began

searchVars == <<query, lexical, semantic, ranked, kept, limited, counted>>
expansionVars == <<asked, next, seeds, view, queue, table, todo, nodes, edges, answer>>
packVars == <<budget, score, rest, packed, spent>>
retrievalVars == <<traverseVars, kind, searchVars, packVars, quiet>>

Kinds == {"none", "expand", "pack", "query"}
Places == {"idle", "text", "vectors", "expanded", "limit", "countNodes", "countEdges", "pack",
           "blocks", "done"} \union TraverseSteps

\* The sequences without repetition of at most n elements of S.
Rankings(S, n) ==
  {s \in UNION {[1..k -> S] : k \in 0..n} : \A i, j \in DOMAIN s : s[i] = s[j] => i = j}

-----------------------------------------------------------------------------
(* The beginning of a command.                                             *)

NothingFound ==
  lexical' = <<>> /\ semantic' = <<>> /\ ranked' = <<>> /\ kept' = {} /\ limited' = 1 /\ counted' = 0

NothingPacked == score' = [n \in {} |-> 0] /\ rest' = {} /\ packed' = <<>> /\ spent' = 0

Begin(command, policy, tokens) ==
  /\ at = "idle"
  /\ kind' = command /\ query' = policy /\ budget' = tokens /\ quiet' = TRUE
  /\ NothingFound /\ NothingPacked
  /\ UNCHANGED database

AskExpand ==
  \E expansion \in Asks : BeginExpand(expansion) /\ Begin("expand", NoQuery, 0)

AskPack ==
  \E pack \in Packs : BeginExpand(pack.expansion) /\ Begin("pack", NoQuery, pack.tokens)

AskQuery ==
  \E policy \in Queries : Forget(NoExpansion) /\ at' = "text" /\ Begin("query", policy, 0)

-----------------------------------------------------------------------------
(* graph_aware_hybrid_search.                                              *)

SearchText ==
  /\ at = "text"
  /\ lexical' \in Rankings(Active, MaxHits)
  /\ at' = "vectors"
  /\ UNCHANGED <<database, expansionVars, kind, query, semantic, ranked, kept, limited, counted,
                 packVars, quiet>>

FirstFew(s, n) == SubSeq(s, 1, IF n < Len(s) THEN n ELSE Len(s))

\* The seeds: the first hits of both rankings, each once, those of the text first.
\* The order of the others is left open.
SeedLists(text, vectors) ==
  LET first == FirstFew(text, SeedWindow)
      found == SetOf(first) \union SetOf(FirstFew(vectors, SeedWindow))
  IN  {list \in Rankings(found, Cardinality(found)) :
         Len(list) = Cardinality(found) /\ SubSeq(list, 1, Len(first)) = first}

\* Without seeds, or without hops, nothing is expanded.
SearchVectors ==
  /\ at = "vectors"
  /\ semantic' \in Rankings(Active, MaxHits)
  /\ \E list \in SeedLists(lexical, semantic') :
       IF query.hops > 0 /\ list # <<>>
       THEN BeginExpand([ids |-> list, hops |-> query.hops, direction |-> "both",
                         types |-> {}, cap |-> query.cap, work |-> TraverseBudget])
       ELSE /\ at' = "expanded"
            /\ UNCHANGED expansionVars
  /\ UNCHANGED <<database, kind, query, lexical, ranked, kept, limited, counted, packVars, quiet>>

\* weighted_rrf of the three rankings, cut to cap: what each of them holds, once.
Fuse ==
  /\ at = "expanded" /\ kind = "query"
  /\ LET found == SetOf(lexical) \union SetOf(semantic) \union Named(answer.entries)
         length == IF query.cap < Cardinality(found) THEN query.cap ELSE Cardinality(found)
     IN  ranked' \in {s \in Rankings(found, length) : Len(s) = length}
  /\ lexical' = <<>> /\ semantic' = <<>>
  /\ at' = "limit"
  /\ kept' = {} /\ limited' = 1
  /\ UNCHANGED <<database, expansionVars, kind, query, counted, packVars, quiet>>

\* diversify_by_source, one id of the ranking after another: how many of its document
\* stayed already.
StayedOf(doc) == {j \in kept : Doc[ranked[j]] = doc}

\* (fault) One more than the limit stays.
StaysOneMore(n) == Cardinality(StayedOf(Doc[n])) <= DiversityCap
Stays(n) == Cardinality(StayedOf(Doc[n])) < DiversityCap

LimitNext ==
  /\ at = "limit" /\ limited <= Len(ranked)
  /\ kept' = IF Stays(ranked[limited]) THEN kept \union {limited} ELSE kept
  /\ limited' = limited + 1
  /\ UNCHANGED <<database, at, expansionVars, kind, query, lexical, semantic, ranked, counted,
                 packVars, quiet>>

-----------------------------------------------------------------------------
(* The budget and the pack.                                                *)

\* adaptive_budget is asked only where no budget was given, or 0.
ChooseBudget ==
  /\ at = "limit" /\ limited > Len(ranked)
  /\ at' = IF query.tokens # 0 THEN "pack" ELSE "countNodes"
  /\ budget' = query.tokens
  /\ UNCHANGED <<database, expansionVars, kind, searchVars, score, rest, packed, spent, quiet>>

CountNodes ==
  /\ at = "countNodes"
  /\ counted' = Cardinality(Active)
  /\ at' = "countEdges"
  /\ UNCHANGED <<database, expansionVars, kind, query, lexical, semantic, ranked, kept, limited,
                 packVars, quiet>>

\* The budget for a graph of so many nodes and edges, up to the rounding of floats.
Adapted(n, e) ==
  CASE n > 0 /\ e < n -> (6 * PackBudget) \div 5
    [] n > 0 /\ e > 3 * n -> (7 * PackBudget) \div 10
    [] OTHER -> PackBudget

CountEdges ==
  /\ at = "countEdges"
  /\ budget' = Adapted(counted, Cardinality(links))
  /\ at' = "pack"
  /\ UNCHANGED <<database, expansionVars, kind, searchVars, score, rest, packed, spent, quiet>>

\* The nodes of the subgraph, each once; `kg query` without seeds has none to pack.
StartPack ==
  /\ at = "pack" \/ (at = "expanded" /\ kind = "pack")
  /\ rest' = Named(answer.entries)
  /\ score' \in [Named(answer.entries) -> Scores]
  /\ packed' = <<>>
  /\ spent' = IF kind = "query" /\ asked.ids = <<>> THEN 0 ELSE Header
  /\ at' = "blocks"
  /\ UNCHANGED <<database, expansionVars, kind, searchVars, budget, quiet>>

\* The order of the blocks: by score, then by id.
Ahead(n, m) == score[n] > score[m] \/ (score[n] = score[m] /\ n < m)

\* (fault) The block itself is not counted.
FitsBefore(n) == spent <= budget

\* A block is left out when it does not fit; later ones may.
Fits(n) == spent + Tokens[n] <= budget

ComesNext(n) == n \in rest /\ \A m \in rest \ {n} : Ahead(n, m)

PackBlock(n) ==
  /\ at = "blocks" /\ ComesNext(n)
  /\ rest' = rest \ {n}
  /\ IF Fits(n) THEN packed' = Append(packed, n) /\ spent' = spent + Tokens[n]
     ELSE UNCHANGED <<packed, spent>>
  /\ UNCHANGED <<database, at, expansionVars, kind, searchVars, budget, score, quiet>>

EndCommand ==
  /\ (at = "blocks" /\ rest = {}) \/ (at = "expanded" /\ kind = "expand")
  /\ at' = "done"
  /\ UNCHANGED <<database, expansionVars, kind, searchVars, packVars, quiet>>

-----------------------------------------------------------------------------
(* The specification.                                                      *)

RetrievalInit ==
  /\ TraverseInit
  /\ kind = "none" /\ query = NoQuery
  /\ lexical = <<>> /\ semantic = <<>> /\ ranked = <<>> /\ kept = {} /\ limited = 1 /\ counted = 0
  /\ budget = 0 /\ score = [n \in {} |-> 0] /\ rest = {} /\ packed = <<>> /\ spent = 0
  /\ quiet = TRUE

Ask == AskExpand \/ AskPack \/ AskQuery

ExpandStep == TraverseStep /\ UNCHANGED <<kind, searchVars, packVars, quiet>>

RunStep ==
  \/ ExpandStep
  \/ SearchText \/ SearchVectors \/ Fuse \/ LimitNext
  \/ ChooseBudget \/ CountNodes \/ CountEdges \/ StartPack
  \/ \E n \in rest : PackBlock(n)
  \/ EndCommand

\* What was written before the command, Starts says.
OtherWrites ==
  /\ at \notin {"idle", "done"}
  /\ Write
  /\ quiet' = FALSE
  /\ UNCHANGED <<at, expansionVars, kind, searchVars, packVars>>

RetrievalNext == Ask \/ RunStep \/ OtherWrites

RetrievalSpec == RetrievalInit /\ [][RetrievalNext]_retrievalVars

RetrievalTypeOK ==
  /\ TraverseTypeOK
  /\ at \in Places /\ kind \in Kinds /\ quiet \in BOOLEAN
  /\ query \in Policies
  /\ lexical \in Rankings(Ids, MaxHits) /\ semantic \in Rankings(Ids, MaxHits)
  /\ ranked \in Rankings(Ids, Cardinality(Ids))
  /\ kept \in SUBSET DOMAIN ranked /\ limited \in 1..Len(ranked) + 1 /\ counted \in Nat
  /\ budget \in Int /\ rest \in SUBSET Ids
  /\ score \in [DOMAIN score -> Scores] /\ DOMAIN score \subseteq Ids
  /\ packed \in Seq(Ids) /\ spent \in Nat

-----------------------------------------------------------------------------
(* What the commands promise.                                              *)

\* A walk of d steps from an id that was asked for, along the edges that were
\* active when the query ran.
Walk(n, d, direction) ==
  \E p \in [0..d -> Ids] :
    /\ p[0] \in SetOf(asked.ids) /\ p[d] = n
    /\ \A i \in 0..d - 1 : Leads(p[i], p[i + 1], view, direction, asked.types)

\* The recursive query finds nothing but what a walk of as many steps leads to, and never
\* goes further than it was asked (neighbors, the row condition r.d < depth).
ReachedWalks ==
  \A row \in table \union queue : row[2] <= asked.hops /\ Walk(row[1], row[2], asked.direction)

\* Unless its LIMIT stopped it, the query finds every node within so many steps, in
\* whatever order SQLite takes the rows.
NothingMissed ==
  table # {} /\ queue = {} =>
    \A d \in 0..asked.hops, n \in Ids : Walk(n, d, asked.direction) => <<n, d>> \in table

\* The traversal works on no more rows than its budget, and no more nodes are shown
\* than cap (expand_with_meta).
WorkBounded ==
  /\ Cardinality(table) <= Limit
  /\ Cardinality(answer.entries) <= AtLeastZero(asked.cap)

HasAnswer == at \notin TraverseSteps

\* The cut fills cap, and what it leaves out comes after all it shows.
CutKeepsFirst ==
  HasAnswer =>
    LET left == Entries \ answer.entries
        some == Among(edges, Named(Entries))
    IN  /\ left # {} => Cardinality(answer.entries) = AtLeastZero(asked.cap)
        /\ \A x \in answer.entries, y \in left : Before(x, y, some) /\ ~Before(y, x, some)

\* A node that was only found along the way never takes the place of a seed: as long as
\* cap has room for the seeds, all of them are shown.
SeedsSurvive ==
  HasAnswer /\ Cardinality(seeds) <= asked.cap => \A i \in seeds : <<i, asked.ids[i]>> \in answer.entries

\* Every edge shown joins two nodes shown, whatever others committed between the statements.
AnswerJoined == \A e \in answer.edges : {e[1], e[3]} \subseteq Named(answer.entries)

\* If no other process wrote meanwhile, all nodes shown are active, the edges are all those
\* between them, and unless a bound was met they are all nodes within so many steps.
QuietAnswerExact ==
  HasAnswer /\ quiet /\ table # {} =>
    LET shown == Named(answer.entries)
    IN  /\ shown \subseteq Active
        /\ answer.edges = Among(links, shown)
        /\ queue = {} /\ Cardinality(Entries) <= asked.cap =>
             shown = {n \in Active : \E d \in 0..asked.hops : Walk(n, d, asked.direction)}

Packing == at = "blocks" \/ (at = "done" /\ kind # "expand")

\* The blocks stay within the budget, and no block that was left out would have fitted beside
\* all the others (pack).
PackFits ==
  Packing =>
    /\ packed # <<>> => spent <= budget
    /\ \A n \in Named(answer.entries) \ (rest \union SetOf(packed)) : spent + Tokens[n] > budget

\* The blocks come from the subgraph, each node once, in the order of the scores.
PackInOrder ==
  Packing =>
    /\ SetOf(packed) \subseteq Named(answer.entries) \ rest
    /\ \A i, j \in DOMAIN packed : i < j => Ahead(packed[i], packed[j])

\* Of each document as many of the ranking stay as the limit allows, the first ones
\* (diversify_by_source).
Diversified ==
  /\ \A doc \in Docs : Cardinality(StayedOf(doc)) <= DiversityCap
  /\ \A i \in (1..limited - 1) \ kept :
       Cardinality({j \in StayedOf(Doc[ranked[i]]) : j < i}) = DiversityCap
================================================================================
