------------------------------ MODULE KGNodePanel ------------------------------
(***************************************************************************)
(* The panel beside the scene (NodeDetailPanel.tsx, MissedCallout.tsx): the *)
(* detail of the selected node with its source code and its neighbours, or, *)
(* for a file that was not indexed, the callout with what to do about it.   *)
(*                                                                         *)
(* Moving from node to node keeps the panel and what it has under way: a    *)
(* request for source code and a write to the clipboard are not cancelled.  *)
(* Only the other kind of panel, or none, ends it.                          *)
(*                                                                         *)
(* A node is the number it has in its layout, and stands for an entity:     *)
(* another layout may give the number to another entity, and the panel goes *)
(* by the number.  Code is identified by the entity it was asked for, None  *)
(* where none is shown; links, wording and the repository's metadata are    *)
(* left out.                                                               *)
(***************************************************************************)
EXTENDS KGDrawing

CONSTANTS
  Skeletons,        \* the nodes of the files that were missed
  CodeView,         \* whether the server offers source code
  Entities,         \* what nodes stand for
  Qualified,        \* the entities with a qualified name
  MaxListed,        \* neighbours listed of a kind
  MaxCalls,         \* bound on the requests under way
  Failed

ASSUMPTION PanelConstants ==
  /\ Skeletons \subseteq Nodes /\ Qualified \subseteq Entities /\ CodeView \in BOOLEAN
  /\ {MaxListed, MaxCalls} \subseteq Nat \ {0}
  /\ {Failed, None} \intersect Entities = {} /\ Failed # None

VARIABLES
  selected,         \* the node of the panel
  subject,          \* the entity it stood for when it was selected
  code, codeLoading, codeError,
  calls,            \* requests for code under way
  copied,           \* the node whose prompt the callout says was copied
  copying,          \* the node whose prompt is being written to the clipboard
  issues,           \* the tracker's address, asked for once until the page is loaded anew
  crossed,          \* history: the panel moved to another node during a request
  renumbered        \* history: since it moved, its node has come to stand for another entity

codeVars == <<code, codeLoading, codeError, calls, crossed, renumbered>>
calloutVars == <<copied, copying, issues>>
nodeVars == <<selected, subject>>
panelVars == <<nodeVars, codeVars, calloutVars>>

Kind(n) == IF n = None THEN "none" ELSE IF n \in Skeletons THEN "callout" ELSE "detail"

-----------------------------------------------------------------------------
(* The panel appears, moves to another node, disappears *)

\* What the panel shows of the node it leaves.
ResetCode == code' = None /\ codeError' = FALSE /\ codeLoading' = FALSE

\* A new panel of a kind; the first callout asks for the tracker.
NewPanel(kind) ==
  /\ ResetCode /\ calls' = <<>> /\ crossed' = FALSE /\ renumbered' = FALSE
  /\ copied' = None /\ copying' = None
  /\ issues' = IF kind = "callout" /\ issues = "unasked" THEN "pending" ELSE issues

\* What the panel has under way goes on.
KeepPanel(n, e) ==
  /\ crossed' = (crossed \/ (n # selected /\ calls # <<>>))
  /\ renumbered' = (n = selected /\ (renumbered \/ e # subject))
  /\ UNCHANGED <<calls, calloutVars>>

\* A panel that forgets to reset what it shows.
SelectKept(n, e) ==
  /\ selected' = n /\ subject' = e
  /\ IF Kind(n) # Kind(selected) THEN NewPanel(Kind(n))
     ELSE UNCHANGED <<code, codeError, codeLoading>> /\ KeepPanel(n, e)

\* The panel resets what it shows when it comes to another number, not when it comes
\* to another entity under the same one.
Select(n, e) ==
  /\ selected' = n /\ subject' = e
  /\ IF Kind(n) # Kind(selected) THEN NewPanel(Kind(n))
     ELSE /\ IF n # selected THEN ResetCode ELSE UNCHANGED <<code, codeError, codeLoading>>
          /\ KeepPanel(n, e)

-----------------------------------------------------------------------------
(* The source code *)

CanFetchCode == Kind(selected) = "detail" /\ CodeView /\ subject \in Qualified

LoadCode ==
  /\ CanFetchCode /\ code = None /\ ~codeLoading
  /\ Len(calls) < MaxCalls
  /\ calls' = Append(calls, [of |-> subject, answer |-> None])
  /\ codeLoading' = TRUE /\ codeError' = FALSE
  /\ UNCHANGED <<code, crossed, renumbered, nodeVars, calloutVars>>

HideCode ==
  /\ CanFetchCode /\ code # None /\ ~codeLoading
  /\ code' = None
  /\ UNCHANGED <<codeLoading, codeError, calls, crossed, renumbered, nodeVars, calloutVars>>

AnswerCode(i) ==
  /\ calls[i].answer = None
  /\ \E answer \in {calls[i].of, Failed} : calls' = [calls EXCEPT ![i].answer = answer]
  /\ UNCHANGED <<code, codeLoading, codeError, crossed, renumbered, nodeVars, calloutVars>>

\* Whichever node the panel has come to since.
DeliverCode(i) ==
  /\ calls[i].answer # None
  /\ calls' = SubSeq(calls, 1, i - 1) \o SubSeq(calls, i + 1, Len(calls))
  /\ codeLoading' = FALSE
  /\ IF calls[i].answer = Failed
     THEN codeError' = TRUE /\ UNCHANGED code
     ELSE code' = calls[i].answer /\ UNCHANGED codeError
  /\ UNCHANGED <<crossed, renumbered, nodeVars, calloutVars>>

-----------------------------------------------------------------------------
(* The neighbours *)

\* What an edge relates the node to; a loop counts in both directions.
Outbound(nodes, edges) == {edge \in edges : edge.source = selected /\ edge.target \in nodes}
Inbound(nodes, edges) == {edge \in edges : edge.target = selected /\ edge.source \in nodes}

\* Of each direction and type only the first are listed.
First(ends) == {n \in ends : Cardinality({m \in ends : m < n}) < MaxListed}
Listed(nodes, edges) ==
  UNION {First({edge.target : edge \in {x \in Outbound(nodes, edges) : x.type = t}})
           \union First({edge.source : edge \in {x \in Inbound(nodes, edges) : x.type = t}}) :
         t \in {edge.type : edge \in edges}}

-----------------------------------------------------------------------------
(* The callout *)

\* A failure is remembered like an answer.
AnswerIssues ==
  /\ issues = "pending" /\ issues' = "answered"
  /\ UNCHANGED <<nodeVars, codeVars, copied, copying>>

CopyPrompt ==
  /\ Kind(selected) = "callout" /\ copying = None /\ copying' = selected
  /\ UNCHANGED <<nodeVars, codeVars, copied, issues>>

\* The clipboard may refuse, which changes nothing.
CopyEnds ==
  /\ copying # None /\ copying' = None
  /\ copied' \in {copied, copying}
  /\ UNCHANGED <<nodeVars, codeVars, issues>>

CopiedFades ==
  /\ copied # None /\ copied' = None
  /\ UNCHANGED <<nodeVars, codeVars, copying, issues>>

PanelInit ==
  /\ selected = None /\ subject = None /\ renumbered = FALSE
  /\ code = None /\ codeLoading = FALSE /\ codeError = FALSE /\ calls = <<>> /\ crossed = FALSE
  /\ copied = None /\ copying = None /\ issues = "unasked"

PanelTypeOK ==
  /\ selected \in Nodes \union {None}
  /\ {subject, code} \subseteq Entities \union {None} /\ (selected = None <=> subject = None)
  /\ {codeLoading, codeError, crossed, renumbered} \subseteq BOOLEAN
  /\ Len(calls) <= MaxCalls
  /\ \A i \in DOMAIN calls : calls[i].of \in Entities /\ calls[i].answer \in Entities \union {Failed, None}
  /\ {copied, copying} \subseteq Skeletons \union {None}
  /\ issues \in {"unasked", "pending", "answered"}
  /\ Kind(selected) # "detail" => code = None /\ calls = <<>> /\ ~codeLoading
  /\ Kind(selected) # "callout" => copied = None /\ copying = None
================================================================================
